---- MODULE Spec2Model ----
(***************************************************************************)
(* ATACFlux thermodynamic annotation pipeline.                             *)
(*                                                                         *)
(* Stage 1 (scripts/compound_thermo_cache.py): metabolites are grouped by  *)
(* their best identifier, every group is resolved against eQuilibrator by  *)
(* a cascade of identifier queries followed by a name search, and one      *)
(* entry per group is stored in the compound cache.                        *)
(*                                                                         *)
(* Stage 2 (scripts/reaction_thermo_cache.py): every reaction gets a net   *)
(* stoichiometry over resolved identifiers and is routed to one of the     *)
(* calculation methods.                                                    *)
(*                                                                         *)
(* Python strings are modelled as sequences of tokens, split at ':' so     *)
(* that prefix tests and concatenations are computed, not assumed.         *)
(* Python's None is the reserved value None below.                         *)
(***************************************************************************)
EXTENDS Integers, Sequences, FiniteSets, TLC

(***************************************************************************)
(* Bounds of the model                                                     *)
(***************************************************************************)
\* Largest number of metabolites in a model handed to stage 1.
MaxMets == 2

(***************************************************************************)
(* Python values                                                           *)
(***************************************************************************)
None == <<"<None>">>

\* bool(v) for a string-or-None value: None and "" are falsy.
Truthy(v) == v # None /\ v # <<>>

\* a or b
PyOr(a, b) == IF Truthy(a) THEN a ELSE b

\* s.startswith(p)
StartsWith(s, p) == Len(s) >= Len(p) /\ SubSeq(s, 1, Len(p)) = p

Range(s) == {s[i] : i \in 1..Len(s)}

(***************************************************************************)
(* compound_thermo_cache.py                                                *)
(***************************************************************************)
Namespaces == {"kegg.compound", "chebi", "metanetx.chemical", "bigg.metabolite"}

\* Priority order for identifier lookup: (annotation key, eQuilibrator prefix)
ID_PRIORITY ==
    << <<"kegg.compound", "kegg">>,
       <<"chebi", "chebi">>,
       <<"metanetx.chemical", "metanetx.chemical">>,
       <<"bigg.metabolite", "bigg.metabolite">> >>

\* met.annotation.get(key): annotations are total maps here, an absent key is None
AnnotationGet(met, key) == met.annotation[key]

\* `not met.annotation`: the annotation dict is empty
AnnotationEmpty(met) == \A ns \in Namespaces : met.annotation[ns] = None

\* IdentifierFor with the CHEBI: prefix added unconditionally
IdentifierForAlwaysPrefixed(met, row) ==
    LET annotation_key == row[1]
        equilibrator_prefix == row[2]
        value == AnnotationGet(met, annotation_key)
    IN  IF ~Truthy(value) THEN << >>
        ELSE IF annotation_key = "chebi"
             THEN << << <<"chebi", ":", "CHEBI", ":">> \o value, <<annotation_key>> >> >>
             ELSE << << <<equilibrator_prefix, ":">> \o value, <<annotation_key>> >> >>

\* The (query string, source) pair one ID_PRIORITY row contributes, as a
\* sequence of length 0 or 1. The source is the one-token string <<key>>.
IdentifierFor(met, row) ==
    LET annotation_key == row[1]
        equilibrator_prefix == row[2]
        value == AnnotationGet(met, annotation_key)
    IN  IF ~Truthy(value) THEN << >>
        ELSE IF annotation_key = "chebi"
             THEN LET v == IF ~StartsWith(value, <<"CHEBI", ":">>)
                           THEN <<"CHEBI", ":">> \o value
                           ELSE value
                  IN  << << <<"chebi", ":">> \o v, <<annotation_key>> >> >>
             ELSE << << <<equilibrator_prefix, ":">> \o value, <<annotation_key>> >> >>

RECURSIVE IdentifiersFrom(_, _)
IdentifiersFrom(met, i) ==
    IF i > Len(ID_PRIORITY) THEN << >>
    ELSE IdentifierFor(met, ID_PRIORITY[i]) \o IdentifiersFrom(met, i + 1)

\* get_all_identifiers(met)
get_all_identifiers(met) ==
    IF AnnotationEmpty(met) THEN << >> ELSE IdentifiersFrom(met, 1)

\* A variant that keys a metabolite by its last identifier
GroupKeyLastIdentifier(met) ==
    LET ids == get_all_identifiers(met)
    IN  IF ids # << >> THEN ids[Len(ids)][1] ELSE <<"name", ":">> \o met.name

\* The grouping key of main(): first identifier, else name:<name>
GroupKey(met) ==
    LET ids == get_all_identifiers(met)
    IN  IF ids # << >> THEN ids[1][1] ELSE <<"name", ":">> \o met.name

\* GroupAppend that assigns [met] instead of appending to the existing list
GroupAppendOverwrite(groups, key, met) ==
    IF \E j \in 1..Len(groups) : groups[j].key = key
    THEN [j \in 1..Len(groups) |->
            IF groups[j].key = key
            THEN [groups[j] EXCEPT !.mets = <<met>>]
            ELSE groups[j]]
    ELSE Append(groups, [key |-> key, mets |-> <<met>>])

\* compound_groups[key].append(met) on an insertion-ordered dict, held as a
\* sequence of [key, mets] records.
GroupAppend(groups, key, met) ==
    IF \E j \in 1..Len(groups) : groups[j].key = key
    THEN [j \in 1..Len(groups) |->
            IF groups[j].key = key
            THEN [groups[j] EXCEPT !.mets = Append(@, met)]
            ELSE groups[j]]
    ELSE Append(groups, [key |-> key, mets |-> <<met>>])

RECURSIVE GroupAll(_, _, _)
GroupAll(mets, i, groups) ==
    IF i > Len(mets) THEN groups
    ELSE GroupAll(mets, i + 1, GroupAppend(groups, GroupKey(mets[i]), mets[i]))

\* The grouping loop of main()
GroupMetabolitesOf(mets) == GroupAll(mets, 1, << >>)

\* seen/all_ids accumulation over one metabolite's identifiers
RECURSIVE AddUnseen(_, _, _)
AddUnseen(all, ids, j) ==
    IF j > Len(ids) THEN all
    ELSE IF \E x \in 1..Len(all) : all[x][1] = ids[j][1]
         THEN AddUnseen(all, ids, j + 1)
         ELSE AddUnseen(Append(all, ids[j]), ids, j + 1)

RECURSIVE CollectAllIds(_, _, _)
CollectAllIds(mets, i, all) ==
    IF i > Len(mets) THEN all
    ELSE CollectAllIds(mets, i + 1, AddUnseen(all, get_all_identifiers(mets[i]), 1))

\* all_ids of a group
AllIdsOf(mets) == CollectAllIds(mets, 1, << >>)

\* identifiers[field]: the first truthy raw annotation among the members
RECURSIVE FirstRaw(_, _, _)
FirstRaw(mets, i, ns) ==
    IF i > Len(mets) THEN None
    ELSE IF ~AnnotationEmpty(mets[i]) /\ Truthy(AnnotationGet(mets[i], ns))
         THEN AnnotationGet(mets[i], ns)
         ELSE FirstRaw(mets, i + 1, ns)

\* the identifiers dict of a group
IdentifiersOf(mets) ==
    [kegg      |-> FirstRaw(mets, 1, "kegg.compound"),
     chebi     |-> FirstRaw(mets, 1, "chebi"),
     metanetx  |-> FirstRaw(mets, 1, "metanetx.chemical"),
     bigg      |-> FirstRaw(mets, 1, "bigg.metabolite"),
     yeast_gem |-> [i \in 1..Len(mets) |-> mets[i].id]]

\* name of a group: the first truthy member name
RECURSIVE FirstName(_, _)
FirstName(mets, i) ==
    IF i > Len(mets) THEN None
    ELSE IF Truthy(mets[i].name) THEN mets[i].name ELSE FirstName(mets, i + 1)

\* cache_key
CacheKeyOf(identifiers, mets) ==
    PyOr(identifiers.kegg,
         PyOr(identifiers.chebi,
              PyOr(identifiers.metanetx,
                   PyOr(identifiers.bigg, mets[1].id))))

\* What eQuilibrator returns for a query that succeeds: the compound's
\* inchi_key, a function of the query.
InchiKeyOf(query) == <<"inchi", ":">> \o query

\* str(e) of the exception a failed query raises
NotFoundMessage(query) == <<"Compound not found", ":">> \o query
NoMatchMessage(nm) == <<"No match for name", ":">> \o nm

\* The error record query_with_cascade appends for a failed attempt
ErrorRecord(source, query, message) ==
    [source |-> source, query |-> query, error |-> message, found |-> FALSE]

\* The value query_with_cascade returns when an attempt succeeds
CascadeSuccess(query, source) == <<InchiKeyOf(query), query, source>>

\* "Nothing found": return None, None, None
CascadeNothing == <<None, None, None>>

\* One identifier attempt that records a success but goes on to the next
\* identifier instead of returning
IdentifierAttemptNoReturn(ok, query_string, source, errs, kk) ==
    IF ok
    THEN [returned |-> FALSE, result |-> CascadeSuccess(query_string, source),
          errors |-> errs, k |-> kk + 1]
    ELSE [returned |-> FALSE, result |-> CascadeNothing,
          errors |-> Append(errs, ErrorRecord(source, query_string,
                                              NotFoundMessage(query_string))),
          k |-> kk + 1]

\* query_with_cascade lines 92-102, one iteration: return on success, else
\* record the failure and advance
IdentifierAttempt(ok, query_string, source, errs, kk) ==
    IF ok
    THEN [returned |-> TRUE, result |-> CascadeSuccess(query_string, source),
          errors |-> errs, k |-> kk]
    ELSE [returned |-> FALSE, result |-> CascadeNothing,
          errors |-> Append(errs, ErrorRecord(source, query_string,
                                              NotFoundMessage(query_string))),
          k |-> kk + 1]

\* d[key] = value on a dict held as a function
DictPut(d, key, value) ==
    [x \in (DOMAIN d) \cup {key} |-> IF x = key THEN value ELSE d[x]]

\* CompoundEntry that keeps queried_as only when no attempt failed
CompoundEntryCleanOnly(nm, res, errs, idents) ==
    [name              |-> nm,
     queried_as        |-> IF errs = << >> THEN res[2] ELSE None,
     query_source      |-> IF errs = << >> THEN res[3] ELSE None,
     matched_inchi_key |-> res[1],
     errors            |-> errs,
     identifiers       |-> idents]

\* CompoundEntry that drops the recorded failures once an attempt succeeded
CompoundEntryDropsErrors(nm, res, errs, idents) ==
    [name              |-> nm,
     queried_as        |-> res[2],
     query_source      |-> res[3],
     matched_inchi_key |-> res[1],
     errors            |-> IF res[2] # None THEN << >> ELSE errs,
     identifiers       |-> idents]

\* The entry main() stores for a group
CompoundEntry(nm, res, errs, idents) ==
    [name              |-> nm,
     queried_as        |-> res[2],
     query_source      |-> res[3],
     matched_inchi_key |-> res[1],
     errors            |-> errs,
     identifiers       |-> idents]

(***************************************************************************)
(* reaction_thermo_cache.py                                                *)
(*                                                                         *)
(* Coefficients are integers, so abs(v) > 1e-9 is v # 0. Energies are      *)
(* integers in units of 1e-7 kJ/mol, potentials in mV, pH in tenths. A     *)
(* number stored in an entry is the pair <<"num", n>>. Insertion-ordered   *)
(* dicts are sequences of <<key, value>> pairs.                            *)
(***************************************************************************)
\* KEGG ID for H+
PROTON_KEGG == <<"kegg", ":", "C00080">>

Num(n) == <<"num", n>>

Abs(n) == IF n < 0 THEN -n ELSE n

\* abs(v) > 1e-9
NonZero(v) == Abs(v) > 0

\* d.get(key, default) on an ordered dict
OGet(d, key, default) ==
    IF \E i \in 1..Len(d) : d[i][1] = key
    THEN d[CHOOSE i \in 1..Len(d) : d[i][1] = key][2]
    ELSE default

OHas(d, key) == \E i \in 1..Len(d) : d[i][1] = key

\* d[key] = value on an ordered dict: a new key goes last, an old one keeps its place
OPut(d, key, value) ==
    IF OHas(d, key)
    THEN [i \in 1..Len(d) |-> IF d[i][1] = key THEN <<key, value>> ELSE d[i]]
    ELSE Append(d, <<key, value>>)

\* A variant that overwrites the coefficient instead of accumulating it
OAddOverwrite(d, key, coef) == OPut(d, key, coef)

\* d[key] = d.get(key, 0) + coef
OAdd(d, key, coef) == OPut(d, key, OGet(d, key, 0) + coef)

\* {k: v for k, v in d.items() if abs(v) > 1e-9}
FilterZerosKeepsAll(d) == d

FilterZeros(d) == SelectSeq(d, LAMBDA kv : NonZero(kv[2]))

OKeys(d) == {d[i][1] : i \in 1..Len(d)}

\* build_compound_lookup: yeast_gem id -> entry, later entries overwrite
RECURSIVE LookupFrom(_, _, _)
LookupFrom(cache, i, lookup) ==
    IF i > Len(cache) THEN lookup
    ELSE LET entry == cache[i][2]
             ids == Range(entry.identifiers.yeast_gem)
         IN  LookupFrom(cache, i + 1,
                        [x \in (DOMAIN lookup) \cup ids |->
                            IF x \in ids THEN entry ELSE lookup[x]])

build_compound_lookup(cache) == LookupFrom(cache, 1, << >>)

\* compound_lookup.get(met.id) is not None
InCache(lookup, id) == id \in DOMAIN lookup

\* comp_entry.get("queried_as") of a lookup result, None when not in the cache
QueriedAs(lookup, id) ==
    IF InCache(lookup, id) THEN lookup[id].queried_as ELSE None

\* comp_entry and comp_entry.get("queried_as")
Resolved(lookup, id) == Truthy(QueriedAs(lookup, id))

\* main() lines 325-345: the accumulation of stoichiometry over rxn.metabolites
RECURSIVE StoichFrom(_, _, _, _)
StoichFrom(mets, lookup, i, st) ==
    IF i > Len(mets) THEN st
    ELSE StoichFrom(mets, lookup, i + 1,
                    IF Resolved(lookup, mets[i][1].id)
                    THEN OAdd(st, QueriedAs(lookup, mets[i][1].id), mets[i][2])
                    ELSE st)

\* main() lines 321-350: net stoichiometry, zero entries removed
NetStoichiometry(mets, lookup) == FilterZeros(StoichFrom(mets, lookup, 1, << >>))

\* main() lines 329-347: met_info of one metabolite
MetInfo(met, coef, lookup) ==
    [name |-> met.name,
     coef |-> coef,
     in_cache |-> InCache(lookup, met.id),
     found_in_equilibrator |-> QueriedAs(lookup, met.id) # None,
     queried_as |-> QueriedAs(lookup, met.id)]

MetabolitesInfo(mets, lookup) ==
    [i \in 1..Len(mets) |-> <<mets[i][1].id, MetInfo(mets[i][1], mets[i][2], lookup)>>]

\* main() lines 352-367: the errors a reaction starts with
InitialErrors(info) ==
    LET not_in_cache == SelectSeq(info, LAMBDA p : ~p[2].in_cache)
        not_found == SelectSeq(info, LAMBDA p : p[2].in_cache /\ ~p[2].found_in_equilibrator)
        ids(s) == [i \in 1..Len(s) |-> s[i][1]]
    IN  (IF not_in_cache # << >>
         THEN << [type |-> "metabolite_not_in_cache", metabolites |-> ids(not_in_cache)] >>
         ELSE << >>)
        \o
        (IF not_found # << >>
         THEN << [type |-> "not_found_in_equilibrator", metabolites |-> ids(not_found)] >>
         ELSE << >>)

\* main() lines 383-387: entry["thermodynamics"] as first built
InitialThermo ==
    << <<"dG_prime", None>>, <<"uncertainty", None>>, <<"formula_queried", None>> >>

\* analyze_proton_compartments: net H+ per compartment. The function returns
\* None instead of an empty dict; both are the empty sequence here.
RECURSIVE ProtonsFrom(_, _, _, _)
ProtonsFrom(mets, lookup, i, acc) ==
    IF i > Len(mets) THEN acc
    ELSE ProtonsFrom(mets, lookup, i + 1,
                     IF QueriedAs(lookup, mets[i][1].id) = PROTON_KEGG
                     THEN OAdd(acc, mets[i][1].compartment, mets[i][2])
                     ELSE acc)

\* A variant that keeps the compartments whose H+ coefficients cancel
analyze_proton_compartmentsUnfiltered(mets, lookup) ==
    ProtonsFrom(mets, lookup, 1, << >>)

analyze_proton_compartments(mets, lookup) ==
    FilterZeros(ProtonsFrom(mets, lookup, 1, << >>))

\* is_transmembrane_proton_reaction: (inner, outer, membrane_key) of the first
\* membrane whose two compartments both carry net H+, else None
is_transmembrane_proton_reaction(proton_compartments, membranes) ==
    IF proton_compartments = << >> \/ Len(proton_compartments) < 2 THEN None
    ELSE LET comps == OKeys(proton_compartments)
             hits == {i \in 1..Len(membranes) :
                         membranes[i][2].inner \in comps /\ membranes[i][2].outer \in comps}
         IN  IF hits = {} THEN None
             ELSE LET i == CHOOSE x \in hits : \A y \in hits : x <= y
                  IN  <<membranes[i][2].inner, membranes[i][2].outer, membranes[i][1]>>

\* build_half_reactions: one half, the resolved metabolites of one compartment
RECURSIVE HalfFrom(_, _, _, _, _)
HalfFrom(mets, lookup, comp, i, acc) ==
    IF i > Len(mets) THEN acc
    ELSE HalfFrom(mets, lookup, comp, i + 1,
                  IF Resolved(lookup, mets[i][1].id) /\ mets[i][1].compartment = comp
                  THEN OAdd(acc, QueriedAs(lookup, mets[i][1].id), mets[i][2])
                  ELSE acc)

\* A variant whose outer half takes every metabolite outside the inner compartment
build_half_reactionsKeepsOthers(mets, lookup, inner_compartment, outer_compartment) ==
    << FilterZeros(HalfFrom(mets, lookup, inner_compartment, 1, << >>)),
       FilterZeros(StoichFrom(SelectSeq(mets, LAMBDA m : m[1].compartment # inner_compartment),
                              lookup, 1, << >>)) >>

\* build_half_reactions(rxn, compound_lookup, inner, outer)
build_half_reactions(mets, lookup, inner_compartment, outer_compartment) ==
    << FilterZeros(HalfFrom(mets, lookup, inner_compartment, 1, << >>)),
       FilterZeros(IF outer_compartment = inner_compartment THEN << >>
                   ELSE HalfFrom(mets, lookup, outer_compartment, 1, << >>)) >>

\* One term of a formula: "<abs(coef)> <id>", or "<id>" when abs(coef) is 1
FormulaTerm(kv) ==
    IF Abs(kv[2]) # 1 THEN <<ToString(Abs(kv[2])), " ">> \o kv[1] ELSE kv[1]

\* " + ".join(terms)
RECURSIVE JoinPlus(_, _)
JoinPlus(terms, i) ==
    IF i > Len(terms) THEN << >>
    ELSE IF i = Len(terms) THEN FormulaTerm(terms[i])
    ELSE FormulaTerm(terms[i]) \o <<" + ">> \o JoinPlus(terms, i + 1)

\* stoich_to_formula: substrates (coef < 0) = products
stoich_to_formula(stoich) ==
    LET subs == SelectSeq(stoich, LAMBDA kv : kv[2] < 0)
        prods == SelectSeq(stoich, LAMBDA kv : ~(kv[2] < 0))
    IN  JoinPlus(subs, 1) \o <<" = ">> \o JoinPlus(prods, 1)

\* load_redox_couples: kegg id -> (is_reduced, potential_mV, couple_name)
RECURSIVE RedoxLookupFrom(_, _, _)
RedoxLookupFrom(couples, i, lookup) ==
    IF i > Len(couples) THEN lookup
    ELSE LET c == couples[i]
             withOx == OPut(lookup, c.oxidized_kegg, <<FALSE, c.potential_mV, c.name>>)
         IN  RedoxLookupFrom(couples, i + 1,
                             OPut(withOx, c.reduced_kegg, <<TRUE, c.potential_mV, c.name>>))

\* (no file and a file without couples both give the empty lookup)
load_redox_couples(couples) == RedoxLookupFrom(couples, 1, << >>)

\* reaction_needs_redox, first pass: queried_as of every resolved metabolite
KeggsInRxn(mets, lookup) ==
    {QueriedAs(lookup, mets[i][1].id) : i \in {j \in 1..Len(mets) : Resolved(lookup, mets[j][1].id)}}

\* A variant that accepts a couple as soon as one of its forms is present
CompleteCouplesEitherForm(mets, lookup, redox_lookup) ==
    LET keggs == KeggsInRxn(mets, lookup)
    IN  {redox_lookup[i][2][3] : i \in {j \in 1..Len(redox_lookup) : redox_lookup[j][1] \in keggs}}

\* reaction_needs_redox: names of the couples both of whose forms are present
CompleteCouples(mets, lookup, redox_lookup) ==
    LET keggs == KeggsInRxn(mets, lookup)
        names == {redox_lookup[i][2][3] : i \in 1..Len(redox_lookup)}
        oxOf(n) == {redox_lookup[i][1] : i \in {j \in 1..Len(redox_lookup) :
                        redox_lookup[j][2][3] = n /\ ~redox_lookup[j][2][1]}}
        redOf(n) == {redox_lookup[i][1] : i \in {j \in 1..Len(redox_lookup) :
                        redox_lookup[j][2][3] = n /\ redox_lookup[j][2][1]}}
    IN  {n \in names : /\ oxOf(n) # {} /\ redOf(n) # {}
                       /\ \E o \in oxOf(n) : o \in keggs
                       /\ \E r \in redOf(n) : r \in keggs}

\* A variant that finds no couple
reaction_needs_redoxFindsNone(mets, lookup, redox_lookup) == << >>

\* reaction_needs_redox: (kegg_id, is_reduced, potential, couple_name) of the
\* metabolites that belong to a complete couple, in reaction order
reaction_needs_redox(mets, lookup, redox_lookup) ==
    LET complete == CompleteCouples(mets, lookup, redox_lookup)
        member(i) == /\ InCache(lookup, mets[i][1].id)
                     /\ Truthy(QueriedAs(lookup, mets[i][1].id))
                     /\ OHas(redox_lookup, QueriedAs(lookup, mets[i][1].id))
                     /\ OGet(redox_lookup, QueriedAs(lookup, mets[i][1].id), None)[3] \in complete
        idx == SelectSeq([i \in 1..Len(mets) |-> i], member)
    IN  IF complete = {} THEN << >>
        ELSE [x \in 1..Len(idx) |->
                LET kegg_id == QueriedAs(lookup, mets[idx[x]][1].id)
                    info == OGet(redox_lookup, kegg_id, None)
                IN  <<kegg_id, info[1], info[2], info[3]>>]

\* calc_dg_with_redox_carriers lines 222-247: the phase a metabolite is given
PhaseOf(kegg_id, redox_lookup) ==
    IF OHas(redox_lookup, kegg_id)
    THEN IF OGet(redox_lookup, kegg_id, None)[1]
         THEN <<"RedoxCarrier", OGet(redox_lookup, kegg_id, None)[2]>>
         ELSE <<"RedoxCarrier", 0>>
    ELSE <<"PhasedCompound">>

\* calc_dg_with_redox_carriers: sparse_with_phases, keyed by (compound, phase)
RECURSIVE PhasedFrom(_, _, _, _, _)
PhasedFrom(mets, lookup, redox_lookup, i, acc) ==
    IF i > Len(mets) THEN acc
    ELSE PhasedFrom(mets, lookup, redox_lookup, i + 1,
                    IF Resolved(lookup, mets[i][1].id)
                    THEN LET kegg_id == QueriedAs(lookup, mets[i][1].id)
                         IN  OAdd(acc, <<kegg_id, PhaseOf(kegg_id, redox_lookup)>>, mets[i][2])
                    ELSE acc)

SparseWithPhases(mets, lookup, redox_lookup) == PhasedFrom(mets, lookup, redox_lookup, 1, << >>)

\* calc_dg_with_redox_carriers: couples_used, the couples of every resolved
\* metabolite found in redox_lookup
CouplesUsed(mets, lookup, redox_lookup) ==
    {OGet(redox_lookup, q, None)[3] : q \in {k \in KeggsInRxn(mets, lookup) : OHas(redox_lookup, k)}}

\* list(couples_used): a set is listed in an order the program does not fix
ListingsOf(S) ==
    {s \in [1..Cardinality(S) -> S] : \A i, j \in 1..Cardinality(S) : i # j => s[i] # s[j]}

\* ", ".join(names)
RECURSIVE JoinComma(_, _)
JoinComma(names, i) ==
    IF i > Len(names) THEN << >>
    ELSE IF i = Len(names) THEN <<names[i]>>
    ELSE <<names[i], ", ">> \o JoinComma(names, i + 1)

\* The resolved metabolites of a reaction, in order: the get_compound calls
ResolvedIds(mets, lookup) ==
    LET idx == SelectSeq([i \in 1..Len(mets) |-> i], LAMBDA i : Resolved(lookup, mets[i][1].id))
    IN  [x \in 1..Len(idx) |-> QueriedAs(lookup, mets[idx[x]][1].id)]

\* A variant with the sign test reversed
OnlyProductsSignReversed(stoich) ==
    stoich # << >> /\ \A i \in 1..Len(stoich) : stoich[i][2] < 0

\* v > 0 for every coefficient of a non-empty half-reaction
OnlyProducts(stoich) == stoich # << >> /\ \A i \in 1..Len(stoich) : stoich[i][2] > 0

\* F = 96.485 kJ/(mol V), times 1 mV, in 1e-7 kJ/mol
F_PER_MV == 964850
\* RT ln10 = 2.479 * 2.303 kJ/mol, times 0.1 pH unit, in 1e-7 kJ/mol
RT_LN10_PER_TENTH == 5709137

\* dG_per_proton = F * delta_psi + RT_ln10 * (outer_pH - inner_pH)
DGPerProton(potential_mV, inner_pH, outer_pH) ==
    F_PER_MV * potential_mV + RT_LN10_PER_TENTH * (outer_pH - inner_pH)

\* A variant that always counts the protons of the outer compartment
VectorialProtonsOuterOnly(dG_per_proton, proton_compartments, inner_comp, outer_comp) ==
    Abs(OGet(proton_compartments, outer_comp, 0))

\* main() lines 469-479: the vectorial proton count
VectorialProtons(dG_per_proton, proton_compartments, inner_comp, outer_comp) ==
    LET n_outer == OGet(proton_compartments, outer_comp, 0)
        n_inner == OGet(proton_compartments, inner_comp, 0)
    IN  IF dG_per_proton < 0 THEN Abs(n_outer) ELSE Abs(n_inner)

\* compartments.get(comp, {}).get("pH", 7.0)
PHOf(compartments, comp) ==
    IF OHas(compartments, comp) THEN OGet(compartments, comp, None).pH ELSE 70

(***************************************************************************)
(* Inputs of stage 1                                                       *)
(***************************************************************************)
MetNames == {<<"n1">>, <<"n2">>}

\* Raw annotation values per namespace. The bigg value "m1" is also the id
\* of the model's first metabolite, as in BiGG-derived models.
AnnotationValues(ns) ==
    CASE ns = "kegg.compound"     -> {None, <<"C00080">>}
      [] ns = "chebi"             -> {None, <<"15379">>, <<"CHEBI", ":", "15379">>}
      [] ns = "metanetx.chemical" -> {None, <<"MNXM1">>}
      [] ns = "bigg.metabolite"   -> {None, <<"m1">>}

Annotations == {a \in [Namespaces -> UNION {AnnotationValues(ns) : ns \in Namespaces}] :
                    \A ns \in Namespaces : a[ns] \in AnnotationValues(ns)}

MetId(i) == <<"m" \o ToString(i)>>

\* model.metabolites: ids are unique within a model. Names are opaque to the
\* program, so the first metabolite's name is fixed (renaming is a symmetry).
Models ==
    UNION {{m \in [1..n -> [id : {MetId(i) : i \in 1..n}, name : MetNames, annotation : Annotations]] :
                /\ \A i \in 1..n : m[i].id = MetId(i)
                /\ m[1].name = <<"n1">>} : n \in 1..MaxMets}

(***************************************************************************)
(* State                                                                   *)
(***************************************************************************)
VARIABLES
    metabolites,      \* model.metabolites
    pc,               \* position of compound_thermo_cache.main()
    compound_groups,  \* insertion-ordered dict key -> members
    gi,               \* index of the group being processed
    all_ids,          \* deduplicated (query string, source) list of the group
    identifiers,      \* identifiers dict of the group
    name,             \* representative name of the group
    cache_key,        \* key the group's entry is stored under
    k,                \* position of query_with_cascade in all_ids
    errors,           \* errors list of query_with_cascade
    result,           \* (inchi_key, query_string, source) returned by the cascade
    compounds,        \* the compound cache being built
    callLog,          \* per processed group, the external calls issued, in order
    keyLog,           \* per processed group, the cache key it was stored under
    output            \* content of the written cache file, None before the dump

groupVars == <<all_ids, identifiers, name, cache_key>>
cascadeVars == <<k, errors, result>>
stage1Vars == <<metabolites, pc, compound_groups, gi, all_ids, identifiers, name,
                cache_key, k, errors, result, compounds, callLog, keyLog, output>>

EmptyDict == << >>

Stage1Init ==
    /\ metabolites \in Models
    /\ pc = "group"
    /\ compound_groups = << >>
    /\ gi = 0
    /\ all_ids = << >>
    /\ identifiers = None
    /\ name = None
    /\ cache_key = None
    /\ k = 0
    /\ errors = << >>
    /\ result = CascadeNothing
    /\ compounds = EmptyDict
    /\ callLog = << >>
    /\ keyLog = << >>
    /\ output = None

\* main() lines 134-145: group the metabolites
GroupMetabolites ==
    /\ pc = "group"
    /\ compound_groups' = GroupMetabolitesOf(metabolites)
    /\ gi' = 1
    /\ pc' = "collect"
    /\ UNCHANGED <<metabolites, groupVars, cascadeVars, compounds, callLog, keyLog, output>>

\* main() lines 157-205: collect the identifiers of group gi and enter the cascade
CollectIdentifiers ==
    /\ pc = "collect"
    /\ LET mets == compound_groups[gi].mets
       IN  /\ all_ids' = AllIdsOf(mets)
           /\ identifiers' = IdentifiersOf(mets)
           /\ name' = FirstName(mets, 1)
           /\ cache_key' = CacheKeyOf(IdentifiersOf(mets), mets)
    /\ k' = 1
    /\ errors' = << >>
    /\ result' = CascadeNothing
    /\ callLog' = Append(callLog, << >>)
    /\ pc' = "cascade"
    /\ UNCHANGED <<metabolites, compound_groups, gi, compounds, keyLog, output>>

\* One external call, as the service sees it
Call(query, source, ok) == [query |-> query, source |-> source, ok |-> ok]

LogCall(log, g, c) == [log EXCEPT ![g] = Append(@, c)]

\* query_with_cascade lines 92-102: one iteration of the identifier loop
TryIdentifier ==
    /\ pc = "cascade"
    /\ k <= Len(all_ids)
    /\ \E ok \in BOOLEAN :
        LET query_string == all_ids[k][1]
            source == all_ids[k][2]
            r == IdentifierAttempt(ok, query_string, source, errors, k)
        IN  /\ callLog' = LogCall(callLog, gi, Call(query_string, source, ok))
            /\ result' = r.result
            /\ errors' = r.errors
            /\ k' = r.k
            /\ pc' = IF r.returned THEN "store" ELSE "cascade"
    /\ UNCHANGED <<metabolites, compound_groups, gi, groupVars, compounds, keyLog, output>>

\* query_with_cascade lines 104-117: the name search after every identifier failed
NameSearch ==
    /\ pc = "cascade"
    /\ k > Len(all_ids)
    /\ \E ok \in BOOLEAN :
        /\ callLog' = LogCall(callLog, gi, Call(name, <<"name_search">>, ok))
        /\ IF ok
           THEN /\ result' = CascadeSuccess(name, <<"name_search">>)
                /\ UNCHANGED errors
           ELSE /\ errors' = Append(errors, ErrorRecord(<<"name_search">>, name,
                                                        NoMatchMessage(name)))
                /\ result' = CascadeNothing
    /\ pc' = "store"
    /\ UNCHANGED <<metabolites, compound_groups, gi, groupVars, k, compounds, keyLog, output>>

\* main() lines 207-217: fill the entry and store it under cache_key
StoreEntry ==
    /\ pc = "store"
    /\ compounds' = DictPut(compounds, cache_key,
                            CompoundEntry(name, result, errors, identifiers))
    /\ keyLog' = Append(keyLog, cache_key)
    /\ gi' = gi + 1
    /\ pc' = IF gi < Len(compound_groups) THEN "collect" ELSE "write"
    /\ all_ids' = << >>
    /\ identifiers' = None
    /\ name' = None
    /\ cache_key' = None
    /\ k' = 0
    /\ errors' = << >>
    /\ result' = CascadeNothing
    /\ UNCHANGED <<metabolites, compound_groups, callLog, output>>

\* main() lines 219-220: json.dump(compounds)
WriteCache ==
    /\ pc = "write"
    /\ output' = compounds
    /\ pc' = "done"
    /\ UNCHANGED <<metabolites, compound_groups, gi, groupVars, cascadeVars, compounds,
                   callLog, keyLog>>

(***************************************************************************)
(* Inputs of stage 2                                                       *)
(***************************************************************************)
\* Largest number of reactions in a model handed to stage 2.
MaxRxns == 1

Met(id, nm, comp) == [id |-> <<id>>, name |-> <<nm>>, compartment |-> comp]

\* The metabolites of the model: H+ in three compartments (twice in the matrix,
\* under two metabolite ids of the same compound), a transported
\* compound A, ATP, the two forms of cytochrome c, ubiquinone, one metabolite
\* the compound stage could not resolve and one it never saw.
h_c == Met("h_c", "H+", "c")
h_m == Met("h_m", "H+", "m")
h_e == Met("h_e", "H+", "e")
hx_m == Met("hx_m", "H+ (bound)", "m")
a_c == Met("a_c", "A", "c")
a_m == Met("a_m", "A", "m")
b_c == Met("b_c", "ATP", "c")
ox_m == Met("ox_m", "ferricytochrome c", "m")
red_m == Met("red_m", "ferrocytochrome c", "m")
q_m == Met("q_m", "ubiquinone", "m")
u_c == Met("u_c", "unknown", "c")
n_c == Met("n_c", "new", "c")

Kegg(c) == <<"kegg", ":", c>>

CachedCompound(nm, kegg, members) ==
    CompoundEntry(<<nm>>, CascadeSuccess(Kegg(kegg), <<"kegg.compound">>), << >>,
                  [kegg |-> <<kegg>>, chebi |-> None, metanetx |-> None, bigg |-> None,
                   yeast_gem |-> members])

\* compounds.json as stage 1 writes it for this model
CompoundsFile ==
    << << <<"C00080">>, CachedCompound("H+", "C00080", <<h_c.id, h_m.id, h_e.id, hx_m.id>>) >>,
       << <<"C00031">>, CachedCompound("A", "C00031", <<a_c.id, a_m.id>>) >>,
       << <<"C00002">>, CachedCompound("ATP", "C00002", <<b_c.id>>) >>,
       << <<"C00125">>, CachedCompound("ferricytochrome c", "C00125", <<ox_m.id>>) >>,
       << <<"C00126">>, CachedCompound("ferrocytochrome c", "C00126", <<red_m.id>>) >>,
       << <<"C00399">>, CachedCompound("ubiquinone", "C00399", <<q_m.id>>) >>,
       << u_c.id,
          CompoundEntry(u_c.name, CascadeNothing,
                        << ErrorRecord(<<"name_search">>, u_c.name, NoMatchMessage(u_c.name)) >>,
                        [kegg |-> None, chebi |-> None, metanetx |-> None, bigg |-> None,
                         yeast_gem |-> <<u_c.id>>]) >> >>

\* compound_lookup = build_compound_lookup(compounds)
compound_lookup == build_compound_lookup(CompoundsFile)

\* The parts a reaction is assembled from, as (metabolite, coefficient) lists
TransportParts ==
    { << >>,
      << <<a_m, -1>>, <<a_c, 1>> >>,
      << <<a_c, -1>>, <<a_m, 1>> >> }

ProtonParts ==
    { << >>,
      << <<h_c, 1>> >>,
      << <<h_m, -1>>, <<h_c, 1>> >>,
      << <<h_m, -1>>, <<h_c, 2>> >>,
      << <<h_c, -2>>, <<h_m, 1>> >>,
      << <<h_e, -1>>, <<h_c, 1>> >>,
      << <<h_m, -1>>, <<h_c, 2>>, <<h_e, -1>> >>,
      << <<h_m, -1>>, <<hx_m, 1>>, <<h_c, 1>> >> }

RedoxParts ==
    { << >>,
      << <<ox_m, -1>>, <<red_m, 1>> >>,
      << <<ox_m, -1>> >>,
      << <<ox_m, -1>>, <<red_m, 1>>, <<q_m, -1>> >> }

OtherParts ==
    { << >>,
      << <<b_c, -1>> >>,
      << <<u_c, -1>> >>,
      << <<n_c, -1>> >>,
      << <<u_c, -1>>, <<n_c, 1>> >> }

\* rxn.metabolites of the reactions considered: at most two non-empty parts,
\* or a transport, a proton and a redox part together
PartsUsed(t, p, r, o) == Cardinality({x \in {<<1, t>>, <<2, p>>, <<3, r>>, <<4, o>>} : x[2] # << >>})

ReactionMetabolites ==
    UNION {UNION {UNION {{t \o p \o r \o o : o \in {x \in OtherParts : x = << >> \/ PartsUsed(t, p, r, x) <= 2}} :
        r \in RedoxParts} : p \in ProtonParts} : t \in TransportParts}

RxnId(i) == <<"r" \o ToString(i)>>

\* model.reactions
ReactionLists ==
    UNION {{rs \in [1..n -> [id : {RxnId(i) : i \in 1..n}, metabolites : ReactionMetabolites]] :
                \A i \in 1..n : rs[i].id = RxnId(i)} : n \in 1..MaxRxns}

\* compartment_parameters.json, models["yeast-GEM"]: the mitochondrial inner
\* membrane with the matrix (m) inside and the cytoplasm (c) outside
CompartmentParams(potential) ==
    [loaded |-> TRUE,
     compartments |-> << <<"c", [pH |-> 68]>>, <<"m", [pH |-> 72]>> >>,
     membranes |-> << <<"mito_inner", [inner |-> "m", outer |-> "c", potential_mV |-> potential]>> >>,
     default_conditions |-> [ionic_strength |-> <<"0.1">>]]

\* redox_couples.json
RedoxCouplesFile ==
    << [name |-> "cytochrome_c", oxidized_kegg |-> Kegg("C00125"),
        reduced_kegg |-> Kegg("C00126"), potential_mV |-> 254],
       [name |-> "ubiquinone", oxidized_kegg |-> Kegg("C00399"),
        reduced_kegg |-> Kegg("C00390"), potential_mV |-> 90] >>

\* load_compartment_params returns None without a file: nothing is loaded
NoCompartmentParams ==
    [loaded |-> FALSE, compartments |-> << >>, membranes |-> << >>,
     default_conditions |-> [ionic_strength |-> <<"0.1">>]]

\* A parameter file that gives the membrane no potential and the compartments
\* no pH: both pH values default to 7.0
UnchargedCompartmentParams ==
    [loaded |-> TRUE,
     compartments |-> << >>,
     membranes |-> << <<"mito_inner", [inner |-> "m", outer |-> "c", potential_mV |-> 0]>> >>,
     default_conditions |-> [ionic_strength |-> <<"0.1">>]]

\* A parameter file with a second membrane, the plasma membrane with the
\* cytoplasm (c) inside and the extracellular space (e) outside
TwoMembraneParams ==
    [loaded |-> TRUE,
     compartments |-> << <<"c", [pH |-> 68]>>, <<"m", [pH |-> 72]>>, <<"e", [pH |-> 55]>> >>,
     membranes |-> << <<"mito_inner", [inner |-> "m", outer |-> "c", potential_mV |-> 180]>>,
                      <<"plasma", [inner |-> "c", outer |-> "e", potential_mV |-> 60]>> >>,
     default_conditions |-> [ionic_strength |-> <<"0.1">>]]

\* The configurations a run may be started with: the optional files given or not
Configs ==
    { [compartment_params |-> NoCompartmentParams, redox_couples |-> << >>],
      [compartment_params |-> NoCompartmentParams, redox_couples |-> RedoxCouplesFile],
      [compartment_params |-> CompartmentParams(180), redox_couples |-> << >>],
      [compartment_params |-> CompartmentParams(180), redox_couples |-> RedoxCouplesFile],
      [compartment_params |-> CompartmentParams(-180), redox_couples |-> RedoxCouplesFile],
      [compartment_params |-> UnchargedCompartmentParams, redox_couples |-> << >>],
      [compartment_params |-> TwoMembraneParams, redox_couples |-> << >>] }

\* What the service answers to a standard-dG query that succeeds
ServiceDG == [value |-> -300000000, error |-> 20000000]

(***************************************************************************)
(* Stage 2: entries and result fields                                      *)
(***************************************************************************)
\* entry["thermodynamics"][key] = value, for a list of (key, value) pairs
RECURSIVE OPutAll(_, _, _)
OPutAll(d, kvs, i) ==
    IF i > Len(kvs) THEN d ELSE OPutAll(OPut(d, kvs[i][1], kvs[i][2]), kvs, i + 1)

Update(d, kvs) == OPutAll(d, kvs, 1)

\* main() lines 398-400: the fixed result of a pure transport reaction
TransportThermo(th) ==
    Update(th, << <<"dG_prime", Num(0)>>,
                  <<"uncertainty", Num(0)>>,
                  <<"formula_queried", <<"transport (no net reaction)">> >> >>)

\* main() lines 411-415: the result of the redox_carrier method
RedoxThermo(th, dG, couples_used) ==
    Update(th, << <<"dG_prime", Num(dG.value)>>,
                  <<"uncertainty", Num(dG.error)>>,
                  <<"method", <<"redox_carrier">> >>,
                  <<"couples_used", couples_used>>,
                  <<"formula_queried",
                    <<"RedoxCarrier-based (couples: ">> \o JoinComma(couples_used, 1) \o <<")">> >> >>)

\* A variant that files the failure under the standard method's error type
RedoxErrorAsEquilibratorError(message, redox_compounds) ==
    [type |-> "equilibrator_error",
     message |-> message,
     couples_attempted |-> [i \in 1..Len(redox_compounds) |-> redox_compounds[i][4]]]

\* main() lines 419-423
RedoxError(message, redox_compounds) ==
    [type |-> "redox_carrier_error",
     message |-> message,
     couples_attempted |-> [i \in 1..Len(redox_compounds) |-> redox_compounds[i][4]]]

\* A variant that reports the chemical step alone as the total
PumpThermoChemistryOnly(th, dG_chem, formula, dG_membrane, dG_per_proton, inner_pH, outer_pH, potential_mV, n_vectorial, proton_comps) ==
    Update(th, << <<"dG_prime", Num(dG_chem.value)>>,
                  <<"uncertainty", Num(dG_chem.error)>>,
                  <<"method", <<"proton_pump">> >>,
                  <<"formula_queried", formula>>,
                  <<"dG_chemistry", Num(dG_chem.value)>>,
                  <<"dG_membrane", Num(dG_membrane)>>,
                  <<"dG_per_proton", Num(dG_per_proton)>>,
                  <<"inner_pH", Num(inner_pH)>>,
                  <<"outer_pH", Num(outer_pH)>>,
                  <<"membrane_potential_mV", Num(potential_mV)>>,
                  <<"vectorial_protons", Num(n_vectorial)>>,
                  <<"proton_stoichiometry", proton_comps>> >>)

\* main() lines 490-504: the result of the proton_pump method
PumpThermo(th, dG_chem, formula, dG_membrane, dG_per_proton, inner_pH, outer_pH, potential_mV, n_vectorial, proton_comps) ==
    Update(th, << <<"dG_prime", Num(dG_chem.value + dG_membrane)>>,
                  <<"uncertainty", Num(dG_chem.error)>>,
                  <<"method", <<"proton_pump">> >>,
                  <<"formula_queried", formula>>,
                  <<"dG_chemistry", Num(dG_chem.value)>>,
                  <<"dG_membrane", Num(dG_membrane)>>,
                  <<"dG_per_proton", Num(dG_per_proton)>>,
                  <<"inner_pH", Num(inner_pH)>>,
                  <<"outer_pH", Num(outer_pH)>>,
                  <<"membrane_potential_mV", Num(potential_mV)>>,
                  <<"vectorial_protons", Num(n_vectorial)>>,
                  <<"proton_stoichiometry", proton_comps>> >>)

\* A variant that files the failure under the standard method's error type
PumpErrorAsEquilibratorError(message, inner_formula, outer_formula) ==
    [type |-> "equilibrator_error", message |-> message,
     inner_formula |-> inner_formula, outer_formula |-> outer_formula]

\* main() lines 509-514
PumpError(message, inner_formula, outer_formula) ==
    [type |-> "proton_pump_error", message |-> message,
     inner_formula |-> inner_formula, outer_formula |-> outer_formula]

\* main() lines 520-525: the fields set before the multicompartmental call
MultiHeaderThermo(th, rt, proton_comps) ==
    Update(th, << <<"formula_queried",
                    <<"multicompartmental: inner(", rt.inner_comp, ")=[">> \o rt.inner_formula
                    \o <<"], outer(", rt.outer_comp, ")=[">> \o rt.outer_formula \o <<"]">> >>,
                  <<"method", <<"multicompartmental">> >>,
                  <<"membrane", <<rt.membrane_key>> >>,
                  <<"inner_compartment", <<rt.inner_comp>> >>,
                  <<"outer_compartment", <<rt.outer_comp>> >>,
                  <<"proton_stoichiometry", proton_comps>> >>)

\* main() lines 552-556: the result of the multicompartmental method
MultiResultThermo(th, dG, inner_pH, outer_pH, potential_mV) ==
    Update(th, << <<"dG_prime", Num(dG.value)>>,
                  <<"uncertainty", Num(dG.error)>>,
                  <<"inner_pH", Num(inner_pH)>>,
                  <<"outer_pH", Num(outer_pH)>>,
                  <<"membrane_potential_mV", Num(potential_mV)>> >>)

\* A variant that keeps the formula of the failed attempt
FallbackHeaderThermoKeepsFormula(th, formula) ==
    Update(th, << <<"method", <<"standard (fallback)">> >> >>)

\* main() lines 564-567: the fields the fallback sets before its own call
FallbackHeaderThermo(th, formula) ==
    Update(th, << <<"method", <<"standard (fallback)">> >>,
                  <<"formula_queried", formula>> >>)

\* A variant that records the formula only
StandardHeaderThermoNoMethod(th, formula) ==
    Update(th, << <<"formula_queried", formula>> >>)

\* main() lines 585-586: the fields the standard method sets before its call
StandardHeaderThermo(th, formula) ==
    Update(th, << <<"formula_queried", formula>>,
                  <<"method", <<"standard">> >> >>)

\* A variant that leaves the result fields as they were
DGResultThermoUnset(th, dG) == th

\* main() lines 570-571 and 591-592: value and uncertainty of a standard result
DGResultThermo(th, dG) ==
    Update(th, << <<"dG_prime", Num(dG.value)>>,
                  <<"uncertainty", Num(dG.error)>> >>)

\* main() lines 559-562, 573-576, 594-597
MethodError(kind, message) == [type |-> kind, message |-> message]

\* str(e) of the exception an external call raised
ErrorMessage(op) == <<op, " failed">>

\* main() lines 376-393: the entry of a reaction (equation and references,
\* copied from the model, are left out)
ReactionEntry(rxn, stoich, info, th, errs) ==
    [reaction |-> [stoichiometry |-> stoich, metabolites |-> info],
     thermodynamics |-> th,
     errors |-> errs]

\* One call of the external service, as it sees it
ExtCall(op, arg, ok) == [op |-> op, arg |-> arg, ok |-> ok]

\* parse_reaction_formula then standard_dg_prime on a formula, failing at
\* step failAt (0: neither fails)
StandardCalls(formula, failAt) ==
    IF failAt = 1 THEN << ExtCall("parse_reaction_formula", formula, FALSE) >>
    ELSE << ExtCall("parse_reaction_formula", formula, TRUE),
            ExtCall("standard_dg_prime", formula, failAt = 0) >>

StandardFailedOp(failAt) ==
    IF failAt = 1 THEN "parse_reaction_formula" ELSE "standard_dg_prime"

(***************************************************************************)
(* Stage 2: state                                                          *)
(***************************************************************************)
VARIABLES
    model_reactions,     \* model.reactions
    config,              \* the optional configuration files
    pc2,                 \* position of reaction_thermo_cache.main()
    ri,                  \* index of the reaction being processed
    stoichiometry,       \* net stoichiometry of the reaction
    metabolites_info,    \* per-metabolite resolution status
    rxn_errors,          \* errors list of the reaction (aliased by its entry)
    thermo,              \* entry["thermodynamics"]
    proton_compartments, \* net H+ per compartment
    route,               \* transmembrane_info and the two half-reaction formulas
    reactions,           \* the reaction cache being built
    extCalls,            \* per reaction, the external calls issued, in order
    attempted,           \* per reaction, the calculation paths entered, in order
    cc_p_h,              \* cc._p_h, the pH the service object is set to
    output2              \* content of the written reaction cache, None before the dump

rxnLocals == <<stoichiometry, metabolites_info, rxn_errors, thermo, proton_compartments, route>>
stage2Vars == <<model_reactions, config, pc2, ri, stoichiometry, metabolites_info,
                rxn_errors, thermo, proton_compartments, route, reactions, extCalls,
                attempted, cc_p_h, output2>>

membranes == config.compartment_params.membranes
compartments == config.compartment_params.compartments
redox_lookup == load_redox_couples(config.redox_couples)

NoRoute ==
    [inner_comp |-> "", outer_comp |-> "", membrane_key |-> "",
     inner_formula |-> << >>, outer_formula |-> << >>]

Stage2Idle ==
    /\ model_reactions = << >>
    /\ config = [compartment_params |-> NoCompartmentParams, redox_couples |-> << >>]
    /\ pc2 = "idle"
    /\ ri = 0
    /\ stoichiometry = << >>
    /\ metabolites_info = << >>
    /\ rxn_errors = << >>
    /\ thermo = << >>
    /\ proton_compartments = << >>
    /\ route = NoRoute
    /\ reactions = << >>
    /\ extCalls = << >>
    /\ attempted = << >>
    /\ cc_p_h = <<"default">>
    /\ output2 = None

Stage2Init ==
    /\ model_reactions \in ReactionLists
    /\ config \in Configs
    /\ pc2 = "build"
    /\ ri = 1
    /\ stoichiometry = << >>
    /\ metabolites_info = << >>
    /\ rxn_errors = << >>
    /\ thermo = << >>
    /\ proton_compartments = << >>
    /\ route = NoRoute
    /\ reactions = << >>
    /\ extCalls = << >>
    /\ attempted = << >>
    /\ cc_p_h = <<"default">>
    /\ output2 = None

Stage1Idle ==
    /\ metabolites = << >>
    /\ pc = "idle"
    /\ compound_groups = << >>
    /\ gi = 0
    /\ all_ids = << >>
    /\ identifiers = None
    /\ name = None
    /\ cache_key = None
    /\ k = 0
    /\ errors = << >>
    /\ result = CascadeNothing
    /\ compounds = EmptyDict
    /\ callLog = << >>
    /\ keyLog = << >>
    /\ output = None

(***************************************************************************)
(* Stage 2: the reaction loop of main()                                    *)
(***************************************************************************)
rxn == model_reactions[ri]

LogCalls(cs) == extCalls' = [extCalls EXCEPT ![ri] = @ \o cs]

Attempt(m) == attempted' = [attempted EXCEPT ![ri] = Append(@, m)]

\* A variant in which a recorded failure ends the run before the entry is stored
StoreAndAdvanceAbortsOnError(th, errs) ==
    /\ reactions' = IF errs # << >> THEN reactions
                    ELSE OPut(reactions, rxn.id,
                              ReactionEntry(rxn, stoichiometry, metabolites_info, th, errs))
    /\ ri' = ri + 1
    /\ pc2' = IF errs # << >> THEN "done"
              ELSE IF ri < Len(model_reactions) THEN "build" ELSE "write"
    /\ stoichiometry' = << >>
    /\ metabolites_info' = << >>
    /\ rxn_errors' = << >>
    /\ thermo' = << >>
    /\ proton_compartments' = << >>
    /\ route' = NoRoute

\* reactions[rxn.id] = entry, then the next iteration of the loop
StoreAndAdvance(th, errs) ==
    /\ reactions' = OPut(reactions, rxn.id,
                         ReactionEntry(rxn, stoichiometry, metabolites_info, th, errs))
    /\ ri' = ri + 1
    /\ pc2' = IF ri < Len(model_reactions) THEN "build" ELSE "write"
    /\ stoichiometry' = << >>
    /\ metabolites_info' = << >>
    /\ rxn_errors' = << >>
    /\ thermo' = << >>
    /\ proton_compartments' = << >>
    /\ route' = NoRoute

\* main() lines 320-393: stoichiometry, metabolite status, initial errors, entry
BuildEntry ==
    /\ pc2 = "build"
    /\ stoichiometry' = NetStoichiometry(rxn.metabolites, compound_lookup)
    /\ metabolites_info' = MetabolitesInfo(rxn.metabolites, compound_lookup)
    /\ rxn_errors' = InitialErrors(MetabolitesInfo(rxn.metabolites, compound_lookup))
    /\ thermo' = InitialThermo
    /\ extCalls' = Append(extCalls, << >>)
    /\ attempted' = Append(attempted, << >>)
    /\ pc2' = "route"
    /\ UNCHANGED <<model_reactions, config, ri, proton_compartments, route, reactions,
                   cc_p_h, output2>>

\* main() lines 395-402: nothing left after netting
TransportShortcut ==
    /\ pc2 = "route"
    /\ stoichiometry = << >>
    /\ Attempt("transport")
    /\ StoreAndAdvance(TransportThermo(thermo), rxn_errors)
    /\ UNCHANGED <<model_reactions, config, extCalls, cc_p_h, output2>>

\* main() lines 404-424: the redox check and the redox_carrier calculation.
\* failAt: 0 the calculation succeeds, j in 1..n wrapping the compound of the
\* j-th resolved metabolite raises, n + 1 the dG query raises.
RedoxCheck ==
    /\ pc2 = "route"
    /\ stoichiometry # << >>
    /\ LET redox_compounds == reaction_needs_redox(rxn.metabolites, compound_lookup, redox_lookup)
           ids == ResolvedIds(rxn.metabolites, compound_lookup)
           phased == SparseWithPhases(rxn.metabolites, compound_lookup, redox_lookup)
           gets == [i \in 1..Len(ids) |-> ExtCall("get_compound", ids[i], TRUE)]
       IN  IF redox_compounds = << >>
           THEN /\ pc2' = "proton"
                /\ UNCHANGED <<ri, rxnLocals, reactions, extCalls, attempted>>
           ELSE \E failAt \in 0..(Len(ids) + 1) :
                  /\ Attempt("redox_carrier")
                  /\ LogCalls(IF failAt \in 1..Len(ids)
                              THEN [j \in 1..failAt |->
                                        ExtCall("get_compound", ids[j], j < failAt)]
                              ELSE Append(gets, ExtCall("standard_dg_prime", phased, failAt = 0)))
                  /\ IF failAt = 0
                     THEN \E couples_used \in ListingsOf(CouplesUsed(rxn.metabolites,
                                                        compound_lookup, redox_lookup)) :
                            StoreAndAdvance(RedoxThermo(thermo, ServiceDG, couples_used),
                                            rxn_errors)
                     ELSE /\ rxn_errors' = Append(rxn_errors,
                                RedoxError(ErrorMessage(IF failAt \in 1..Len(ids) THEN "get_compound"
                                                        ELSE "standard_dg_prime"),
                                           redox_compounds))
                          /\ pc2' = "proton"
                          /\ UNCHANGED <<ri, stoichiometry, metabolites_info, thermo,
                                         proton_compartments, route, reactions>>
    /\ UNCHANGED <<model_reactions, config, cc_p_h, output2>>

\* main() lines 426-447 and 516-517: the transmembrane check and the choice
\* between proton_pump, multicompartmental and standard
ProtonCheck ==
    /\ pc2 = "proton"
    /\ LET pcs == analyze_proton_compartments(rxn.metabolites, compound_lookup)
           transmembrane_info == is_transmembrane_proton_reaction(pcs, membranes)
       IN  /\ proton_compartments' = pcs
           /\ IF transmembrane_info # None /\ config.compartment_params.loaded
              THEN LET halves == build_half_reactions(rxn.metabolites, compound_lookup,
                                     transmembrane_info[1], transmembrane_info[2])
                       inner_stoich == halves[1]
                       outer_stoich == halves[2]
                   IN  /\ route' = [inner_comp |-> transmembrane_info[1],
                                    outer_comp |-> transmembrane_info[2],
                                    membrane_key |-> transmembrane_info[3],
                                    inner_formula |-> stoich_to_formula(inner_stoich),
                                    outer_formula |-> stoich_to_formula(outer_stoich)]
                       /\ pc2' = IF OnlyProducts(outer_stoich) \/ OnlyProducts(inner_stoich)
                                 THEN "pump" ELSE "multi"
              ELSE /\ route' = NoRoute
                   /\ pc2' = "standard"
    /\ UNCHANGED <<model_reactions, config, ri, stoichiometry, metabolites_info, rxn_errors,
                   thermo, reactions, extCalls, attempted, cc_p_h, output2>>

\* main() lines 448-515: the proton_pump calculation.
\* failAt: 0 success, 1 the formula parse raises, 2 the dG query raises.
ProtonPump ==
    /\ pc2 = "pump"
    /\ LET membrane == OGet(membranes, route.membrane_key, None)
           inner_pH == PHOf(compartments, route.inner_comp)
           outer_pH == PHOf(compartments, route.outer_comp)
           potential_mV == membrane.potential_mV
           dG_per_proton == DGPerProton(potential_mV, inner_pH, outer_pH)
           n_vectorial == VectorialProtons(dG_per_proton, proton_compartments,
                                           route.inner_comp, route.outer_comp)
           dG_membrane == n_vectorial * dG_per_proton
           formula == stoich_to_formula(stoichiometry)
       IN  \E failAt \in 0..2 :
             /\ Attempt("proton_pump")
             /\ LogCalls(StandardCalls(formula, failAt))
             /\ IF failAt = 0
                THEN StoreAndAdvance(
                        PumpThermo(thermo, ServiceDG, formula, dG_membrane, dG_per_proton,
                                   inner_pH, outer_pH, potential_mV, n_vectorial,
                                   proton_compartments),
                        rxn_errors)
                ELSE /\ rxn_errors' = Append(rxn_errors,
                            PumpError(ErrorMessage(StandardFailedOp(failAt)),
                                      route.inner_formula, route.outer_formula))
                     /\ pc2' = "standard"
                     /\ UNCHANGED <<ri, stoichiometry, metabolites_info, thermo,
                                    proton_compartments, route, reactions>>
    /\ UNCHANGED <<model_reactions, config, cc_p_h, output2>>

\* The calls of the multicompartmental attempt, failing at step failAt
MultiCalls(rt, failAt) ==
    LET args == <<rt.inner_formula, rt.outer_formula>>
    IN  IF failAt = 1 THEN << ExtCall("parse_reaction_formula", rt.inner_formula, FALSE) >>
        ELSE IF failAt = 2
        THEN << ExtCall("parse_reaction_formula", rt.inner_formula, TRUE),
                ExtCall("parse_reaction_formula", rt.outer_formula, FALSE) >>
        ELSE << ExtCall("parse_reaction_formula", rt.inner_formula, TRUE),
                ExtCall("parse_reaction_formula", rt.outer_formula, TRUE),
                ExtCall("multicompartmental_standard_dg_prime", args, failAt = 0) >>

\* main() lines 519-576 and 599: the multicompartmental calculation and its
\* fallback to the standard method on the full net stoichiometry.
\* failAt: 0 success, 1 / 2 a half-reaction parse raises, 3 the dG query raises;
\* fb: the same for the fallback (0 success, 1 parse raises, 2 dG query raises).
Multicompartmental ==
    /\ pc2 = "multi"
    /\ LET membrane == OGet(membranes, route.membrane_key, None)
           inner_pH == PHOf(compartments, route.inner_comp)
           outer_pH == PHOf(compartments, route.outer_comp)
           potential_mV == membrane.potential_mV
           header == MultiHeaderThermo(thermo, route, proton_compartments)
           formula == stoich_to_formula(stoichiometry)
       IN  /\ cc_p_h' = Num(inner_pH)
           /\ \E failAt \in 0..3 :
                IF failAt = 0
                THEN /\ Attempt("multicompartmental")
                     /\ LogCalls(MultiCalls(route, 0))
                     /\ StoreAndAdvance(
                            MultiResultThermo(header, ServiceDG, inner_pH, outer_pH, potential_mV),
                            rxn_errors)
                ELSE \E fb \in 0..2 :
                     /\ attempted' = [attempted EXCEPT ![ri] =
                                        @ \o <<"multicompartmental", "standard (fallback)">>]
                     /\ LogCalls(MultiCalls(route, failAt) \o StandardCalls(formula, fb))
                     /\ LET errs1 == Append(rxn_errors,
                                        MethodError("multicompartmental_error",
                                            ErrorMessage(IF failAt = 3
                                                         THEN "multicompartmental_standard_dg_prime"
                                                         ELSE "parse_reaction_formula")))
                            fbHeader == FallbackHeaderThermo(header, formula)
                        IN  IF fb = 0
                            THEN StoreAndAdvance(DGResultThermo(fbHeader, ServiceDG), errs1)
                            ELSE StoreAndAdvance(fbHeader,
                                    Append(errs1, MethodError("equilibrator_error",
                                                      ErrorMessage(StandardFailedOp(fb)))))
    /\ UNCHANGED <<model_reactions, config, output2>>

\* main() lines 577-599: the standard calculation.
\* failAt: 0 success, 1 the formula parse raises, 2 the dG query raises.
Standard ==
    /\ pc2 = "standard"
    /\ LET formula == stoich_to_formula(stoichiometry)
           header == StandardHeaderThermo(thermo, formula)
       IN  \E failAt \in 0..2 :
             /\ Attempt("standard")
             /\ LogCalls(StandardCalls(formula, failAt))
             /\ IF failAt = 0
                THEN StoreAndAdvance(DGResultThermo(header, ServiceDG), rxn_errors)
                ELSE StoreAndAdvance(header,
                        Append(rxn_errors, MethodError("equilibrator_error",
                                               ErrorMessage(StandardFailedOp(failAt)))))
    /\ UNCHANGED <<model_reactions, config, cc_p_h, output2>>

\* main() lines 601-602: json.dump(reactions)
WriteReactions ==
    /\ pc2 = "write"
    /\ output2' = reactions
    /\ pc2' = "done"
    /\ UNCHANGED <<model_reactions, config, ri, rxnLocals, reactions, extCalls, attempted,
                   cc_p_h>>

(***************************************************************************)
(* The serving layer: app.py, data_access/cobra_model.py and               *)
(* data_access/constraints.py                                              *)
(***************************************************************************)
\* The reactions and metabolites of the model file the server loads: an
\* exchange reaction and an internal reaction; o2_e has an exchange reaction,
\* atp_c has none
ServedReactions == {"EX_o2", "R1"}

ServedMetabolites == {"o2_e", "atp_c"}

Bounds(lower, upper) == <<lower, upper>>

\* The bounds of the reactions as read from the model file
FileBounds ==
    [r \in ServedReactions |-> IF r = "R1" THEN Bounds(0, 10) ELSE Bounds(-10, 10)]

\* annotations.find_exchange_reaction: the reactions of a metabolite that
\* have this metabolite only
find_exchange_reaction(met) == IF met = "o2_e" THEN <<"EX_o2">> ELSE << >>

\* The "bounds" of a constraint request: a single number or a (lower, upper)
\* pair
NumberBounds(n) == [kind |-> "number", lower |-> n, upper |-> n]

PairBounds(lower, upper) == [kind |-> "pair", lower |-> lower, upper |-> upper]

RequestBounds == {PairBounds(0, 0), NumberBounds(5), PairBounds(3, 1)}

RequestTypes == {"reaction", "exchange"}

RequestTargets == {"EX_o2", "R1", "o2_e", "atp_c"}

\* Largest number of constraint ids clients use, next to the ids of the presets
MaxConstraints == 1

RequestIds == {"c" \o ToString(i) : i \in 1..MaxConstraints}

\* constraints.get_available_presets(model) for the served model: the
\* exchange reaction each preset's queries find; only the oxygen query of
\* the anaerobic preset finds one
PresetNames == {"anaerobic", "glucose_limited", "no_ethanol"}

AvailablePresets ==
    << <<"anaerobic", [id |-> "preset_anaerobic", type |-> "reaction",
                       target |-> "EX_o2", bounds |-> PairBounds(0, 0)]>> >>

\* _store_original_bounds: (lower_bound, upper_bound) of every reaction
StoreOriginalBounds(model_bounds) == model_bounds

\* A variant of reset_bounds that leaves the model as it is
reset_boundsSkipped(model_bounds, orig) == model_bounds

\* reset_bounds: every reaction with stored bounds gets them back
reset_bounds(model_bounds, orig) ==
    [r \in DOMAIN model_bounds |-> IF r \in DOMAIN orig THEN orig[r] ELSE model_bounds[r]]

\* The reaction a constraint acts on, as a sequence of length 0 or 1:
\* model.reactions.get_by_id(target) for a reaction constraint; for an
\* exchange constraint the reaction of that id, else the first exchange
\* reaction of the metabolite of that id
ConstrainedReaction(constraint) ==
    IF constraint.target \in ServedReactions THEN <<constraint.target>>
    ELSE IF constraint.type = "exchange" /\ constraint.target \in ServedMetabolites
         THEN IF find_exchange_reaction(constraint.target) # << >>
              THEN <<find_exchange_reaction(constraint.target)[1]>>
              ELSE << >>
         ELSE << >>

\* rxn.bounds = (bounds, bounds) or tuple(bounds): the assignment raises for
\* lower > upper
BoundsAccepted(bounds) == bounds.lower <= bounds.upper

\* apply_to_model, one constraint: a disabled one is skipped, a failure
\* (unknown target, rejected bounds) is caught and changes nothing
ApplyConstraint(model_bounds, constraint) ==
    IF /\ constraint.enabled
       /\ ConstrainedReaction(constraint) # << >>
       /\ BoundsAccepted(constraint.bounds)
    THEN [model_bounds EXCEPT ![ConstrainedReaction(constraint)[1]] =
              Bounds(constraint.bounds.lower, constraint.bounds.upper)]
    ELSE model_bounds

\* apply_to_model: the constraints in insertion order
RECURSIVE ApplyFrom(_, _, _)
ApplyFrom(model_bounds, cs, i) ==
    IF i > Len(cs) THEN model_bounds
    ELSE ApplyFrom(ApplyConstraint(model_bounds, cs[i][2]), cs, i + 1)

apply_to_model(model_bounds, cs) == ApplyFrom(model_bounds, cs, 1)

\* constraints.add: _constraints[constraint_id] = {...}, enabled
AddTo(cs, constraint_id, constraint_type, target_id, bounds) ==
    OPut(cs, constraint_id,
         [type |-> constraint_type, target |-> target_id, bounds |-> bounds, enabled |-> TRUE])

\* del _constraints[constraint_id]
RemoveFrom(cs, constraint_id) == SelectSeq(cs, LAMBDA kv : kv[1] # constraint_id)

\* constraints.toggle: flip, or set when the request names a value
ToggleIn(cs, constraint_id, enabled) ==
    [i \in 1..Len(cs) |->
        IF cs[i][1] = constraint_id
        THEN <<cs[i][1], [cs[i][2] EXCEPT !.enabled =
                             IF enabled = "flip" THEN ~cs[i][2].enabled ELSE enabled = "on"]>>
        ELSE cs[i]]

VARIABLES
    model_loaded,     \* cobra_model._model is not None
    model_bounds,     \* bounds of the reactions of cobra_model._model
    original_bounds,  \* cobra_model._original_bounds
    constraints,      \* constraints._constraints, insertion-ordered
    fba_solution,     \* cobra_model._fba_solution: the bounds it was solved under
    request,          \* the handler that served the last request
    constrained       \* the reactions some solve found away from their original bounds

servingVars == <<model_loaded, model_bounds, original_bounds, constraints, fba_solution,
                 request, constrained>>

NoBounds == [r \in {} |-> Bounds(0, 0)]

\* The module state when app.py is imported: no model, no constraints
ServingInit ==
    /\ model_loaded = FALSE
    /\ model_bounds = NoBounds
    /\ original_bounds = NoBounds
    /\ constraints = << >>
    /\ fba_solution = None
    /\ request = "none"
    /\ constrained = {}

\* The server is not part of a pipeline run
ServingIdle == ServingInit

\* POST /api/load_model: read the model file and store its bounds, or change
\* nothing when no model file is found
LoadModel ==
    /\ \E found \in BOOLEAN :
          IF found
          THEN /\ model_loaded' = TRUE
               /\ model_bounds' = FileBounds
               /\ original_bounds' = StoreOriginalBounds(FileBounds)
          ELSE UNCHANGED <<model_loaded, model_bounds, original_bounds>>
    /\ request' = "load_model"
    /\ UNCHANGED <<constraints, fba_solution, constrained>>

\* POST /api/optimize: reset the bounds, apply the enabled constraints, solve
Optimize ==
    /\ request' = "optimize"
    /\ IF ~model_loaded
       THEN UNCHANGED <<model_loaded, model_bounds, original_bounds, constraints,
                        fba_solution, constrained>>
       ELSE /\ model_bounds' = apply_to_model(reset_bounds(model_bounds, original_bounds),
                                              constraints)
            /\ fba_solution' = model_bounds'
            /\ constrained' = constrained \cup
                   {r \in ServedReactions : model_bounds'[r] # original_bounds[r]}
            /\ UNCHANGED <<model_loaded, original_bounds, constraints>>

\* POST /api/constraints: a request with a required field missing is refused
AddConstraint ==
    /\ \/ \E constraint_id \in RequestIds, constraint_type \in RequestTypes,
             target \in RequestTargets, bounds \in RequestBounds :
               constraints' = AddTo(constraints, constraint_id, constraint_type, target, bounds)
       \/ UNCHANGED constraints
    /\ request' = "add_constraint"
    /\ UNCHANGED <<model_loaded, model_bounds, original_bounds, fba_solution, constrained>>

\* DELETE /api/constraints/<constraint_id>
RemoveConstraint ==
    /\ \E constraint_id \in RequestIds \cup {AvailablePresets[i][2].id : i \in 1..Len(AvailablePresets)} :
            constraints' = RemoveFrom(constraints, constraint_id)
    /\ request' = "remove_constraint"
    /\ UNCHANGED <<model_loaded, model_bounds, original_bounds, fba_solution, constrained>>

\* POST /api/constraints/<constraint_id>/toggle
ToggleConstraint ==
    /\ \E constraint_id \in RequestIds \cup {AvailablePresets[i][2].id : i \in 1..Len(AvailablePresets)},
          enabled \in {"flip", "on", "off"} :
            constraints' = ToggleIn(constraints, constraint_id, enabled)
    /\ request' = "toggle_constraint"
    /\ UNCHANGED <<model_loaded, model_bounds, original_bounds, fba_solution, constrained>>

\* POST /api/constraints/clear
ClearConstraints ==
    /\ constraints' = << >>
    /\ request' = "clear_constraints"
    /\ UNCHANGED <<model_loaded, model_bounds, original_bounds, fba_solution, constrained>>

\* POST /api/constraints/preset/<preset_name>: refused without a model and
\* for a preset the model does not offer
ApplyPreset ==
    /\ \E preset_name \in PresetNames :
          IF model_loaded /\ OHas(AvailablePresets, preset_name)
          THEN LET constraint == OGet(AvailablePresets, preset_name, None)
               IN  constraints' = AddTo(constraints, constraint.id, constraint.type,
                                        constraint.target, constraint.bounds)
          ELSE UNCHANGED constraints
    /\ request' = "apply_preset"
    /\ UNCHANGED <<model_loaded, model_bounds, original_bounds, fba_solution, constrained>>

(***************************************************************************)
(* Specifications                                                          *)
(***************************************************************************)
vars == <<stage1Vars, stage2Vars, servingVars>>

\* A run of compound_thermo_cache.py
Init == Stage1Init /\ Stage2Idle /\ ServingIdle

Next ==
    \/ (GroupMetabolites /\ UNCHANGED <<stage2Vars, servingVars>>)
    \/ (CollectIdentifiers /\ UNCHANGED <<stage2Vars, servingVars>>)
    \/ (TryIdentifier /\ UNCHANGED <<stage2Vars, servingVars>>)
    \/ (NameSearch /\ UNCHANGED <<stage2Vars, servingVars>>)
    \/ (StoreEntry /\ UNCHANGED <<stage2Vars, servingVars>>)
    \/ (WriteCache /\ UNCHANGED <<stage2Vars, servingVars>>)

Spec == Init /\ [][Next]_vars

\* A run of reaction_thermo_cache.py
InitReactions == Stage1Idle /\ Stage2Init /\ ServingIdle

NextReactions ==
    \/ (BuildEntry /\ UNCHANGED <<stage1Vars, servingVars>>)
    \/ (TransportShortcut /\ UNCHANGED <<stage1Vars, servingVars>>)
    \/ (RedoxCheck /\ UNCHANGED <<stage1Vars, servingVars>>)
    \/ (ProtonCheck /\ UNCHANGED <<stage1Vars, servingVars>>)
    \/ (ProtonPump /\ UNCHANGED <<stage1Vars, servingVars>>)
    \/ (Multicompartmental /\ UNCHANGED <<stage1Vars, servingVars>>)
    \/ (Standard /\ UNCHANGED <<stage1Vars, servingVars>>)
    \/ (WriteReactions /\ UNCHANGED <<stage1Vars, servingVars>>)

SpecReactions == InitReactions /\ [][NextReactions]_vars

\* The server, answering requests in any order
InitServing == Stage1Idle /\ Stage2Idle /\ ServingInit

NextServing ==
    \/ (LoadModel /\ UNCHANGED <<stage1Vars, stage2Vars>>)
    \/ (Optimize /\ UNCHANGED <<stage1Vars, stage2Vars>>)
    \/ (AddConstraint /\ UNCHANGED <<stage1Vars, stage2Vars>>)
    \/ (RemoveConstraint /\ UNCHANGED <<stage1Vars, stage2Vars>>)
    \/ (ToggleConstraint /\ UNCHANGED <<stage1Vars, stage2Vars>>)
    \/ (ClearConstraints /\ UNCHANGED <<stage1Vars, stage2Vars>>)
    \/ (ApplyPreset /\ UNCHANGED <<stage1Vars, stage2Vars>>)

SpecServing == InitServing /\ [][NextServing]_vars

(***************************************************************************)
(* Stage 1 properties                                                      *)
(***************************************************************************)
\* Groups whose entry has been stored, and the entry a group left in the cache
Processed == 1..Len(keyLog)
Surviving(g) == ~\E h \in Processed : h > g /\ keyLog[h] = keyLog[g]
EntryOf(g) == compounds[keyLog[g]]
MembersOf(g) == compound_groups[g].mets
ModelIds == {metabolites[i].id : i \in 1..Len(metabolites)}

\* Positions (group, member) at which a metabolite id occurs in the groups
GroupPositions(id) ==
    {p \in UNION {{<<g, j>> : j \in 1..Len(MembersOf(g))} : g \in 1..Len(compound_groups)} :
        MembersOf(p[1])[p[2]].id = id}

\* C1: after grouping, every metabolite id of the model is a member of exactly
\* one compound group (once), and the groups hold nothing but the model's
\* metabolites: the groups partition the metabolite set.
C1_GroupsPartition ==
    pc # "group" =>
        /\ \A id \in ModelIds : Cardinality(GroupPositions(id)) = 1
        /\ \A g \in 1..Len(compound_groups) : \A j \in 1..Len(MembersOf(g)) :
              MembersOf(g)[j] \in Range(metabolites)
        /\ \A g, h \in 1..Len(compound_groups) :
              g # h => compound_groups[g].key # compound_groups[h].key

\* C1 witness: two metabolites were merged into one group
C1_Witness ==
    /\ pc # "group"
    /\ Len(metabolites) = 2
    /\ Len(compound_groups) = 1
    /\ Len(MembersOf(1)) = 2

\* Entries of the written cache whose yeast_gem list holds a metabolite id
WrittenEntriesWith(id) ==
    {key \in DOMAIN output : id \in Range(output[key].identifiers.yeast_gem)}

\* C2: in the written compound cache every metabolite id of the model is in
\* the yeast_gem list of exactly one entry (no group's entry was overwritten
\* by another group stored under the same cache key).
C2_CacheComplete ==
    pc = "done" => \A id \in ModelIds : Cardinality(WrittenEntriesWith(id)) = 1

\* Distinct identifier strings of a group, over all of its members
DistinctIds(g) ==
    UNION {{get_all_identifiers(MembersOf(g)[j])[x][1] :
                x \in 1..Len(get_all_identifiers(MembersOf(g)[j]))} :
           j \in 1..Len(MembersOf(g))}

IsNameSearch(c) == c.source = <<"name_search">>

\* C3: for every group the cascade stops at the first success: at most one
\* call succeeds and it is the last one issued, the name search is issued only
\* after every distinct identifier was tried and failed, and the number of
\* calls is at most (distinct identifiers of the group) + 1.
C3_StopsAtFirstSuccess ==
    \A g \in 1..Len(callLog) :
        LET log == callLog[g] IN
        /\ \A i \in 1..Len(log) : log[i].ok => i = Len(log)
        /\ \A i \in 1..Len(log) :
              IsNameSearch(log[i]) =>
                  /\ i = Cardinality(DistinctIds(g)) + 1
                  /\ {log[j].query : j \in 1..(i - 1)} = DistinctIds(g)
                  /\ \A j \in 1..(i - 1) : ~log[j].ok
        /\ Len(log) <= Cardinality(DistinctIds(g)) + 1

\* C3 witness: a group resolved by its second identifier after the first failed
C3_Witness ==
    \E g \in Processed :
        /\ Len(callLog[g]) = 2
        /\ ~callLog[g][1].ok
        /\ callLog[g][2].ok
        /\ ~IsNameSearch(callLog[g][2])
        /\ Cardinality(DistinctIds(g)) > 2

\* C4: queried_as of an entry is null iff every resolution attempt of its
\* group (each identifier, then the name search) failed; when non-null it is
\* the query string (or name) of the call that succeeded and query_source is
\* that call's source.
C4_QueriedAsNullIffAllFailed ==
    \A g \in Processed : Surviving(g) =>
        LET log == callLog[g]
            e == EntryOf(g)
        IN  /\ e.queried_as = None <=>
                  /\ \A i \in 1..Len(log) : ~log[i].ok
                  /\ Len(log) = Cardinality(DistinctIds(g)) + 1
                  /\ IsNameSearch(log[Len(log)])
            /\ e.queried_as # None =>
                  \E i \in 1..Len(log) :
                      /\ log[i].ok
                      /\ e.queried_as = log[i].query
                      /\ e.query_source = log[i].source
            /\ e.queried_as = None <=> e.query_source = None

\* C4 witness: the cache holds an unresolved entry and one resolved by the
\* name search after its identifiers failed
C4_Witness ==
    /\ \E g \in Processed : Surviving(g) /\ EntryOf(g).queried_as = None
                            /\ Len(callLog[g]) >= 2
    /\ \E g \in Processed : Surviving(g) /\ EntryOf(g).query_source = <<"name_search">>
                            /\ Len(callLog[g]) >= 2

\* The error record a failed call must have left
ExpectedError(c) ==
    [source |-> c.source,
     query  |-> c.query,
     error  |-> IF IsNameSearch(c) THEN <<"No match for name", ":">> \o c.query
                ELSE <<"Compound not found", ":">> \o c.query,
     found  |-> FALSE]

\* C5: the errors list of an entry holds exactly one record (source, query,
\* error, found = false) per failed attempt of its group, in the order of the
\* attempts, whether or not a later attempt succeeded: k-1 records when the
\* k-th attempt succeeded, all identifier attempts followed by the name search
\* when none did.
C5_ErrorsAreFailedAttempts ==
    \A g \in Processed : Surviving(g) =>
        LET log == callLog[g]
            e == EntryOf(g)
            failed == SelectSeq(log, LAMBDA c : ~c.ok)
        IN  /\ Len(e.errors) = Len(failed)
            /\ \A i \in 1..Len(failed) : e.errors[i] = ExpectedError(failed[i])
            /\ \A i \in 1..Len(failed) : failed[i] = log[i]
            /\ e.queried_as # None => Len(e.errors) = Len(log) - 1
            /\ e.queried_as = None =>
                  /\ Len(e.errors) = Cardinality(DistinctIds(g)) + 1
                  /\ IsNameSearch(log[Len(log)])

\* C5 witness: an entry resolved at its third attempt keeps the two failures
C5_Witness ==
    \E g \in Processed :
        /\ Surviving(g)
        /\ EntryOf(g).queried_as # None
        /\ Len(EntryOf(g).errors) = 2
        /\ Len(callLog[g]) = 3

\* Rank of a source in ID_PRIORITY
PriorityRank(source) ==
    CHOOSE i \in 1..Len(ID_PRIORITY) : <<ID_PRIORITY[i][1]>> = source

\* C6: the identifier list handed to the resolver is free of duplicates and
\* ordered by namespace priority (kegg.compound, chebi, metanetx.chemical,
\* bigg.metabolite): no identifier of a lower-priority namespace precedes one
\* of a higher-priority namespace.
C6_PriorityOrdered ==
    pc = "cascade" =>
        /\ \A i, j \in 1..Len(all_ids) : i # j => all_ids[i][1] # all_ids[j][1]
        /\ \A i, j \in 1..Len(all_ids) :
              i < j => PriorityRank(all_ids[i][2]) <= PriorityRank(all_ids[j][2])

\* Members of a group that carry a chebi annotation and no kegg annotation
ChebiOnly(met) ==
    /\ Truthy(met.annotation["chebi"])
    /\ ~Truthy(met.annotation["kegg.compound"])

\* C7: a metabolite with chebi annotation v and no kegg annotation is first
\* queried as chebi:CHEBI:<number>, the CHEBI: prefix being present exactly
\* once whether or not v carries it; when that query succeeds the entry has
\* query_source chebi and queried_as equal to that string.
C7_ChebiNormalized ==
    \A g \in 1..Len(callLog) :
        (callLog[g] # << >> /\ \E j \in 1..Len(MembersOf(g)) : ChebiOnly(MembersOf(g)[j])) =>
            LET first == callLog[g][1] IN
            /\ first.query = <<"chebi", ":", "CHEBI", ":", "15379">>
            /\ first.source = <<"chebi">>
            /\ (first.ok /\ g \in Processed /\ Surviving(g)) =>
                  /\ EntryOf(g).query_source = <<"chebi">>
                  /\ EntryOf(g).queried_as = <<"chebi", ":", "CHEBI", ":", "15379">>

\* C7 witness: a metabolite annotated "CHEBI:15379" (prefix already present)
\* and one annotated "15379" were resolved by their first query
C7_Witness ==
    \E g \in Processed :
        /\ Surviving(g)
        /\ callLog[g][1].ok
        /\ \E j \in 1..Len(MembersOf(g)) :
              ChebiOnly(MembersOf(g)[j]) /\ MembersOf(g)[j].annotation["chebi"] = <<"15379">>
        /\ \E j \in 1..Len(MembersOf(g)) :
              ChebiOnly(MembersOf(g)[j])
              /\ MembersOf(g)[j].annotation["chebi"] = <<"CHEBI", ":", "15379">>

(***************************************************************************)
(* Stage 2 properties                                                      *)
(***************************************************************************)
\* The reactions whose entry is stored, by position in model.reactions
StoredRxns == 1..Len(reactions)

ThermoOf(i) == reactions[i][2].thermodynamics

MethodOf(i) == OGet(ThermoOf(i), "method", None)

MetsOf(i) == model_reactions[i].metabolites

\* queried_as of the metabolites of a reaction that the cache resolves
ResolvedCompounds(mets) ==
    {QueriedAs(compound_lookup, mets[j][1].id) :
        j \in {x \in 1..Len(mets) : /\ InCache(compound_lookup, mets[x][1].id)
                                    /\ QueriedAs(compound_lookup, mets[x][1].id) # None}}

\* Sum of the coefficients a reaction gives to one resolved identifier
RECURSIVE NetCoefficient(_, _, _)
NetCoefficient(mets, q, i) ==
    IF i > Len(mets) THEN 0
    ELSE (IF /\ InCache(compound_lookup, mets[i][1].id)
             /\ QueriedAs(compound_lookup, mets[i][1].id) = q
          THEN mets[i][2] ELSE 0) + NetCoefficient(mets, q, i + 1)

\* Every resolved identifier's coefficients cancel
AllCancel(mets) == \A q \in ResolvedCompounds(mets) : NetCoefficient(mets, q, 1) = 0

\* Some configured couple has both forms among the resolved compounds
HasCompleteCouple(mets) ==
    \E x \in 1..Len(config.redox_couples) :
        /\ config.redox_couples[x].oxidized_kegg \in ResolvedCompounds(mets)
        /\ config.redox_couples[x].reduced_kegg \in ResolvedCompounds(mets)

\* C8: a reaction is routed to redox_carrier (the calculation is entered, or
\* its entry has that method) only if some configured redox couple has both
\* its oxidized and its reduced identifier among the reaction's resolved
\* compounds.
C8_RedoxOnlyForCompleteCouple ==
    \A i \in StoredRxns :
        (MethodOf(i) = <<"redox_carrier">> \/ "redox_carrier" \in Range(attempted[i]))
            => HasCompleteCouple(MetsOf(i))

\* A written entry with method redox_carrier
C8_Witness ==
    /\ pc2 = "done"
    /\ \E i \in StoredRxns :
        /\ MethodOf(i) = <<"redox_carrier">>
        /\ HasCompleteCouple(MetsOf(i))

\* C9: when every resolved identifier's coefficients cancel, the entry has
\* dG_prime 0.0 and uncertainty 0.0 and no external call was made for the
\* reaction.
C9_PureTransportIsZeroWithoutCalls ==
    \A i \in StoredRxns :
        AllCancel(MetsOf(i)) =>
            /\ OGet(ThermoOf(i), "dG_prime", None) = Num(0)
            /\ OGet(ThermoOf(i), "uncertainty", None) = Num(0)
            /\ extCalls[i] = << >>

\* A written entry of a reaction that moves a resolved compound between two
\* compartments and nets to nothing
C9_Witness ==
    /\ pc2 = "done"
    /\ \E i \in StoredRxns :
        /\ ResolvedCompounds(MetsOf(i)) # {}
        /\ AllCancel(MetsOf(i))
        /\ OGet(ThermoOf(i), "dG_prime", None) = Num(0)

\* Net H+ coefficient of a reaction in one compartment
RECURSIVE NetProtons(_, _, _)
NetProtons(mets, comp, i) ==
    IF i > Len(mets) THEN 0
    ELSE (IF /\ InCache(compound_lookup, mets[i][1].id)
             /\ QueriedAs(compound_lookup, mets[i][1].id) = PROTON_KEGG
             /\ mets[i][1].compartment = comp
          THEN mets[i][2] ELSE 0) + NetProtons(mets, comp, i + 1)

Magnitude(n) == IF n < 0 THEN 0 - n ELSE n

\* The compartments in which the H+ coefficients of a reaction do not cancel
NetProtonCompartments(mets) ==
    {c \in {mets[j][1].compartment : j \in 1..Len(mets)} : NetProtons(mets, c, 1) # 0}

\* Positions of the configured membranes both of whose compartments are such
MatchingMembranes(mets) ==
    {x \in 1..Len(membranes) : /\ membranes[x][2].inner \in NetProtonCompartments(mets)
                               /\ membranes[x][2].outer \in NetProtonCompartments(mets)}

TransmembraneCandidate(mets) ==
    /\ Cardinality(NetProtonCompartments(mets)) >= 2
    /\ MatchingMembranes(mets) # {}

\* The first configured membrane that matches, with its key
FirstMatch(mets) == CHOOSE x \in MatchingMembranes(mets) : \A y \in MatchingMembranes(mets) : x <= y

MembraneOf(mets) == membranes[FirstMatch(mets)][2]

\* Positions of the resolved metabolites of one compartment
ResolvedIn(mets, comp) ==
    {j \in 1..Len(mets) : /\ InCache(compound_lookup, mets[j][1].id)
                          /\ QueriedAs(compound_lookup, mets[j][1].id) # None
                          /\ mets[j][1].compartment = comp}

\* The scenario of C10 for one membrane: A[outer] <=> A[inner] with one
\* identifier, H+ in both compartments, outer half-reaction only positive
ProtonCoupledTransportAcross(mets, membrane) ==
    /\ \E a \in ResolvedIn(mets, membrane.outer), b \in ResolvedIn(mets, membrane.inner) :
        /\ QueriedAs(compound_lookup, mets[a][1].id) = QueriedAs(compound_lookup, mets[b][1].id)
        /\ QueriedAs(compound_lookup, mets[a][1].id) # PROTON_KEGG
        /\ mets[a][2] * mets[b][2] < 0
    /\ \E a \in ResolvedIn(mets, membrane.outer) :
        QueriedAs(compound_lookup, mets[a][1].id) = PROTON_KEGG
    /\ \E b \in ResolvedIn(mets, membrane.inner) :
        QueriedAs(compound_lookup, mets[b][1].id) = PROTON_KEGG
    /\ LET outer_stoich == build_half_reactions(mets, compound_lookup,
                                                membrane.inner, membrane.outer)[2]
       IN  outer_stoich # << >> /\ \A x \in 1..Len(outer_stoich) : outer_stoich[x][2] > 0

ProtonCoupledTransport(mets) ==
    /\ config.compartment_params.loaded
    /\ \E x \in 1..Len(membranes) : ProtonCoupledTransportAcross(mets, membranes[x][2])

\* C10 as stated: a reaction A[outer] <=> A[inner] across a configured
\* membrane, with H+ in both compartments and an outer half-reaction of only
\* positive coefficients, is routed to proton_pump and never to
\* multicompartmental.
C10_RoutedToProtonPump ==
    \A i \in StoredRxns :
        ProtonCoupledTransport(MetsOf(i)) =>
            /\ "proton_pump" \in Range(attempted[i])
            /\ "multicompartmental" \notin Range(attempted[i])

\* The scenario across the membrane the proton check selects: the first
\* configured one both of whose compartments keep a non-zero net H+ coefficient
ProtonCoupledTransportSelected(mets) ==
    /\ config.compartment_params.loaded
    /\ TransmembraneCandidate(mets)
    /\ ProtonCoupledTransportAcross(mets, MembraneOf(mets))

\* C10 amended: the same reaction across the membrane the proton check
\* selects, when its net stoichiometry is not empty
\* after netting and no redox_carrier calculation succeeded for it, is routed
\* to proton_pump and never to multicompartmental; its entry has method
\* proton_pump unless that calculation failed and left a proton_pump_error.
C10_RoutedToProtonPumpUnlessShortcut ==
    \A i \in StoredRxns :
        ( /\ ProtonCoupledTransportSelected(MetsOf(i))
          /\ ~AllCancel(MetsOf(i))
          /\ MethodOf(i) # <<"redox_carrier">> )
            => /\ "proton_pump" \in Range(attempted[i])
               /\ "multicompartmental" \notin Range(attempted[i])
               /\ \/ MethodOf(i) = <<"proton_pump">>
                  \/ \E x \in 1..Len(reactions[i][2].errors) :
                        reactions[i][2].errors[x].type = "proton_pump_error"

\* A written entry of such a reaction with method proton_pump
C10_Witness ==
    /\ pc2 = "done"
    /\ \E i \in StoredRxns :
        /\ ProtonCoupledTransportSelected(MetsOf(i))
        /\ ~AllCancel(MetsOf(i))
        /\ MethodOf(i) = <<"proton_pump">>

\* The pH of a compartment (7.0 when not given)
ConfiguredPH(comp) ==
    IF \E x \in 1..Len(compartments) : compartments[x][1] = comp
    THEN (CHOOSE c \in Range(compartments) : c[1] = comp)[2].pH
    ELSE 70

\* F * delta_psi + RT ln10 * (pH_outer - pH_inner), in 1e-7 kJ/mol
PerProtonEnergy(mets) ==
    F_PER_MV * MembraneOf(mets).potential_mV
        + RT_LN10_PER_TENTH * (ConfiguredPH(MembraneOf(mets).outer) - ConfiguredPH(MembraneOf(mets).inner))

\* C11: in every proton_pump entry, vectorial_protons is |net H+ of the outer
\* compartment| when the per-proton energy is negative and |net H+ of the
\* inner compartment| otherwise (zero included); with 180 mV, inner pH 7.2 and
\* outer pH 6.8 the energy is positive and the inner count is recorded.
C11_VectorialProtonsDirection ==
    \A i \in StoredRxns :
        MethodOf(i) = <<"proton_pump">> =>
            /\ OGet(ThermoOf(i), "vectorial_protons", None) =
                  Num(IF PerProtonEnergy(MetsOf(i)) < 0
                      THEN Magnitude(NetProtons(MetsOf(i), MembraneOf(MetsOf(i)).outer, 1))
                      ELSE Magnitude(NetProtons(MetsOf(i), MembraneOf(MetsOf(i)).inner, 1)))
            /\ ( /\ MembraneOf(MetsOf(i)).potential_mV = 180
                 /\ ConfiguredPH(MembraneOf(MetsOf(i)).inner) = 72
                 /\ ConfiguredPH(MembraneOf(MetsOf(i)).outer) = 68 )
                => /\ PerProtonEnergy(MetsOf(i)) > 0
                   /\ OGet(ThermoOf(i), "vectorial_protons", None) =
                        Num(Magnitude(NetProtons(MetsOf(i), MembraneOf(MetsOf(i)).inner, 1)))

\* A written proton_pump entry at 180 mV, pH 7.2 inside and 6.8 outside, whose
\* inner and outer proton counts differ and whose record is the inner count
C11_Witness ==
    /\ pc2 = "done"
    /\ \E i \in StoredRxns :
        /\ MethodOf(i) = <<"proton_pump">>
        /\ MembraneOf(MetsOf(i)).potential_mV = 180
        /\ Magnitude(NetProtons(MetsOf(i), MembraneOf(MetsOf(i)).inner, 1))
              # Magnitude(NetProtons(MetsOf(i), MembraneOf(MetsOf(i)).outer, 1))
        /\ OGet(ThermoOf(i), "vectorial_protons", None) =
              Num(Magnitude(NetProtons(MetsOf(i), MembraneOf(MetsOf(i)).inner, 1)))

\* The external calls of a reaction that raised
FailedCalls(i) == SelectSeq(extCalls[i], LAMBDA c : ~c.ok)

\* The calculation methods entered for a reaction (the transport shortcut
\* calculates nothing)
MethodsAttempted(i) == SelectSeq(attempted[i], LAMBDA m : m # "transport")

\* Every method entered for the reaction ended with a call that raised
AllAttemptsFailed(i) == Len(FailedCalls(i)) = Len(MethodsAttempted(i))

DGPrimeOf(i) == OGet(ThermoOf(i), "dG_prime", None)

ErrorsOf(i) == reactions[i][2].errors

\* C12: dG_prime of an entry is null only if every calculation method
\* attempted for the reaction failed, and then the entry's errors list is not
\* empty.
C12_NullOnlyIfAllFailed ==
    \A i \in StoredRxns :
        DGPrimeOf(i) = None =>
            /\ MethodsAttempted(i) # << >>
            /\ AllAttemptsFailed(i)
            /\ ErrorsOf(i) # << >>

\* A written entry without dG_prime after two failed methods
C12_Witness ==
    /\ pc2 = "done"
    /\ \E i \in StoredRxns :
        /\ DGPrimeOf(i) = None
        /\ Len(MethodsAttempted(i)) >= 2
        /\ AllAttemptsFailed(i)

\* The fields every entry may carry, and the diagnostic fields of each method
CommonFields == {"dG_prime", "uncertainty", "method", "formula_queried"}

DiagnosticFields(m) ==
    CASE m = "redox_carrier" -> {"couples_used"}
      [] m = "proton_pump" ->
            {"dG_chemistry", "dG_membrane", "dG_per_proton", "inner_pH", "outer_pH",
             "membrane_potential_mV", "vectorial_protons", "proton_stoichiometry"}
      [] m = "multicompartmental" ->
            {"membrane", "inner_compartment", "outer_compartment", "proton_stoichiometry",
             "inner_pH", "outer_pH", "membrane_potential_mV"}
      [] OTHER -> {}

FieldsOf(i) == {ThermoOf(i)[x][1] : x \in 1..Len(ThermoOf(i))}

\* The path that produced the entry: the last one entered
ProducedBy(i) == attempted[i][Len(attempted[i])]

\* C13: an entry with a non-null dG_prime carries the diagnostic fields of the
\* method that produced the result only; a result of the standard calculation,
\* also when reached after a failed attempt of another method, carries no
\* diagnostic field of another method.
C13_OneMethodsDiagnostics ==
    \A i \in StoredRxns :
        DGPrimeOf(i) # None =>
            FieldsOf(i) \subseteq (CommonFields \cup DiagnosticFields(ProducedBy(i)))

\* C14 as stated: every entry has a method field, and its value is one of
\* standard, multicompartmental, proton_pump, redox_carrier, none.
C14_MethodAlwaysOneOfFive ==
    \A i \in StoredRxns :
        /\ {"dG_prime", "uncertainty", "formula_queried", "method"} \subseteq FieldsOf(i)
        /\ MethodOf(i) \in {<<"standard">>, <<"multicompartmental">>, <<"proton_pump">>,
                            <<"redox_carrier">>, <<"none">>}

\* C14 amended: every entry has dG_prime, uncertainty and formula_queried; an
\* entry of the transport shortcut has no method field and the formula
\* "transport (no net reaction)"; every other entry has a method field whose
\* value is one of standard, standard (fallback), multicompartmental,
\* proton_pump, redox_carrier.
C14_MethodUnlessTransport ==
    \A i \in StoredRxns :
        /\ {"dG_prime", "uncertainty", "formula_queried"} \subseteq FieldsOf(i)
        /\ IF ProducedBy(i) = "transport"
           THEN /\ "method" \notin FieldsOf(i)
                /\ OGet(ThermoOf(i), "formula_queried", None) = <<"transport (no net reaction)">>
           ELSE /\ "method" \in FieldsOf(i)
                /\ MethodOf(i) \in {<<"standard">>, <<"standard (fallback)">>,
                                    <<"multicompartmental">>, <<"proton_pump">>,
                                    <<"redox_carrier">>}

\* A written entry of the fallback after a failed multicompartmental attempt
C14_Witness ==
    /\ pc2 = "done"
    /\ \E i \in StoredRxns :
        /\ ProducedBy(i) = "standard (fallback)"
        /\ MethodOf(i) = <<"standard (fallback)">>

HasError(i, kind) == \E x \in 1..Len(ErrorsOf(i)) : ErrorsOf(i)[x].type = kind

\* The redox_carrier calculation of the reaction was entered and raised
RedoxFailed(i) ==
    /\ "redox_carrier" \in Range(attempted[i])
    /\ ProducedBy(i) # "redox_carrier"

\* C15: when the redox_carrier calculation of a reaction fails, a
\* redox_carrier_error is in the entry's errors and the reaction is then
\* computed by the standard method, never by proton_pump or multicompartmental.
C15_RedoxFailureFallsToStandard ==
    \A i \in StoredRxns :
        RedoxFailed(i) =>
            /\ HasError(i, "redox_carrier_error")
            /\ attempted[i] = <<"redox_carrier", "standard">>

\* The formula of the full net stoichiometry of a reaction
NetFormula(i) == stoich_to_formula(NetStoichiometry(MetsOf(i), compound_lookup))

\* Positions of the calls of a reaction that raised
FailurePositions(i) == {x \in 1..Len(extCalls[i]) : ~extCalls[i][x].ok}

\* Position of the call that ended the n-th method entered for the reaction,
\* when that method failed
FailureOfAttempt(i, n) ==
    CHOOSE x \in FailurePositions(i) : Cardinality({y \in FailurePositions(i) : y <= x}) = n

\* Position of "multicompartmental" among the methods entered
MulticompartmentalAttempt(i) ==
    CHOOSE n \in 1..Len(attempted[i]) : attempted[i][n] = "multicompartmental"

\* The calls issued after the one that ended the multicompartmental attempt
CallsAfterFailure(i) ==
    SubSeq(extCalls[i], FailureOfAttempt(i, MulticompartmentalAttempt(i)) + 1, Len(extCalls[i]))

\* The multicompartmental calculation of the reaction was entered and raised
MulticompartmentalFailed(i) ==
    /\ "multicompartmental" \in Range(attempted[i])
    /\ ProducedBy(i) # "multicompartmental"

\* C16: when the multicompartmental calculation fails at any step, a
\* multicompartmental_error is recorded and the standard calculation is run on
\* the formula of the full net stoichiometry; dG_prime is that result, or null
\* with an additional equilibrator_error when the standard calculation fails.
C16_MulticompartmentalFallback ==
    \A i \in StoredRxns :
        MulticompartmentalFailed(i) =>
            LET after == CallsAfterFailure(i)
            IN  /\ HasError(i, "multicompartmental_error")
                /\ OGet(ThermoOf(i), "formula_queried", None) = NetFormula(i)
                /\ Len(after) \in {1, 2}
                /\ after[1].op = "parse_reaction_formula"
                /\ after[1].arg = NetFormula(i)
                /\ Len(after) = 2 =>
                      /\ after[1].ok
                      /\ after[2].op = "standard_dg_prime"
                      /\ after[2].arg = NetFormula(i)
                /\ IF after[Len(after)].ok
                   THEN /\ Len(after) = 2
                        /\ DGPrimeOf(i) = Num(ServiceDG.value)
                        /\ ~HasError(i, "equilibrator_error")
                   ELSE /\ DGPrimeOf(i) = None
                        /\ HasError(i, "equilibrator_error")

\* A written entry whose multicompartmental service call raised and whose
\* fallback gave the result
C16_Witness ==
    /\ pc2 = "done"
    /\ \E i \in StoredRxns :
        /\ MulticompartmentalFailed(i)
        /\ extCalls[i][FailureOfAttempt(i, MulticompartmentalAttempt(i))].op
              = "multicompartmental_standard_dg_prime"
        /\ DGPrimeOf(i) = Num(ServiceDG.value)

\* The proton_pump calculation of the reaction was entered and raised
ProtonPumpFailed(i) ==
    /\ "proton_pump" \in Range(attempted[i])
    /\ ProducedBy(i) # "proton_pump"

\* C17: when the proton_pump calculation fails, a proton_pump_error is
\* recorded, no proton_pump result field is left in the entry, and the reaction
\* is then computed by the standard method.
C17_ProtonPumpFailureFallsToStandard ==
    \A i \in StoredRxns :
        ProtonPumpFailed(i) =>
            /\ HasError(i, "proton_pump_error")
            /\ FieldsOf(i) \cap DiagnosticFields("proton_pump") = {}
            /\ MethodOf(i) = <<"standard">>
            /\ Len(attempted[i]) >= 2
            /\ SubSeq(attempted[i], Len(attempted[i]) - 1, Len(attempted[i]))
                  = <<"proton_pump", "standard">>

\* A written entry whose proton_pump attempt raised and whose standard
\* calculation gave the result
C17_Witness ==
    /\ pc2 = "done"
    /\ \E i \in StoredRxns :
        /\ ProtonPumpFailed(i)
        /\ HasError(i, "proton_pump_error")
        /\ DGPrimeOf(i) = Num(ServiceDG.value)

\* The calls of a reaction that carry a formula: those issued after the
\* redox_carrier attempt, which submits compounds and a phased reaction
FormulaCalls(i) ==
    IF "redox_carrier" \notin Range(attempted[i]) THEN extCalls[i]
    ELSE IF ProducedBy(i) = "redox_carrier" THEN << >>
    ELSE SubSeq(extCalls[i], FailureOfAttempt(i, 1) + 1, Len(extCalls[i]))

\* C18: while one reaction is processed, a call that failed is never issued
\* again with the same arguments: no formula is submitted twice to the formula
\* parser or to the standard-dG service.
C18_NoCallRepeatedAfterFailure ==
    \A i \in StoredRxns :
        LET calls == FormulaCalls(i)
        IN  \A x, y \in 1..Len(calls) :
                (x < y /\ ~calls[x].ok /\ calls[x].op = calls[y].op)
                    => calls[x].arg # calls[y].arg

\* The written reaction cache holds exactly one entry per reaction of the model
CacheCoversModel ==
    /\ output2 # None
    /\ Len(output2) = Len(model_reactions)
    /\ \A i \in 1..Len(model_reactions) :
          Cardinality({x \in 1..Len(output2) : output2[x][1] = model_reactions[i].id}) = 1

\* Statements left in the current iteration, by position
StageRank ==
    CASE pc2 = "build" -> 5
      [] pc2 = "route" -> 4
      [] pc2 = "proton" -> 3
      [] pc2 \in {"pump", "multi"} -> 2
      [] pc2 \in {"standard", "write"} -> 1
      [] OTHER -> 0

\* A bound on the steps the run can still take
StepsLeft == 6 * (Len(model_reactions) + 1 - ri) + StageRank

\* Before the dump is done the run is at a statement of the loop, inside the
\* model's reactions, or at the dump after the last of them
LoopCanStep ==
    \/ pc2 = "done"
    \/ pc2 = "write" /\ ri = Len(model_reactions) + 1
    \/ /\ pc2 \in {"build", "route", "proton", "pump", "multi", "standard"}
       /\ ri \in 1..Len(model_reactions)
       /\ pc2 \in {"pump", "multi"} => route # NoRoute

\* C19: for every model and every pattern of external-call failures the
\* reaction stage terminates (every step lowers a non-negative bound on the
\* steps left, and the run is at a statement until the dump is done), and it has then
\* written exactly one entry per reaction id of the model.
C19_ReactionCacheComplete ==
    /\ [](pc2 = "done" => CacheCoversModel)
    /\ [](StepsLeft >= 0 /\ LoopCanStep)
    /\ [][StepsLeft' < StepsLeft]_vars

\* A finished run in which calls raised and the cache still covers the model
C19_Witness ==
    /\ pc2 = "done"
    /\ CacheCoversModel
    /\ \E i \in StoredRxns : Cardinality(FailurePositions(i)) >= 2

\* The redox_carrier results the run may store for the reaction at hand when
\* every call succeeds: one per order in which list(couples_used) may come out
PossibleRedoxResults ==
    {RedoxThermo(thermo, ServiceDG, couples_used) :
        couples_used \in ListingsOf(CouplesUsed(rxn.metabolites, compound_lookup, redox_lookup))}

\* C20: the cache content is determined by the model, the configuration and
\* the service's responses, list order included: where the run is about to
\* store a result, only one result is possible for the same responses.
C20_ContentDetermined ==
    ( /\ pc2 = "route"
      /\ stoichiometry # << >>
      /\ reaction_needs_redox(rxn.metabolites, compound_lookup, redox_lookup) # << >> )
        => Cardinality(PossibleRedoxResults) = 1

StoichiometryOf(i) == reactions[i][2].reaction.stoichiometry

\* The metabolites of a reaction that resolve to identifier q
MetabolitesOf(mets, q) ==
    {j \in 1..Len(mets) : /\ InCache(compound_lookup, mets[j][1].id)
                          /\ QueriedAs(compound_lookup, mets[j][1].id) = q}

\* C21: the stored stoichiometry has one key per resolved identifier whose
\* coefficients, summed over the reaction's metabolites that resolve to it in
\* any compartment, do not cancel; the value is that sum; metabolites that are
\* unresolved or absent from the compound cache contribute nothing.
C21_NetStoichiometry ==
    \A i \in StoredRxns :
        LET st == StoichiometryOf(i)
        IN  /\ \A a, b \in 1..Len(st) : st[a][1] = st[b][1] => a = b
            /\ OKeys(st) = {q \in ResolvedCompounds(MetsOf(i)) : NetCoefficient(MetsOf(i), q, 1) # 0}
            /\ \A a \in 1..Len(st) : st[a][2] = NetCoefficient(MetsOf(i), st[a][1], 1)

\* A stored reaction in which one identifier is summed over two compartments
\* without cancelling and another cancels
C21_Witness ==
    \E i \in StoredRxns :
        /\ \E q \in OKeys(StoichiometryOf(i)) : Cardinality(MetabolitesOf(MetsOf(i), q)) >= 2
        /\ \E q \in ResolvedCompounds(MetsOf(i)) : NetCoefficient(MetsOf(i), q, 1) = 0

\* C22: the proton check treats the reaction at hand as a transmembrane
\* candidate (it goes on to the proton_pump or the multicompartmental
\* calculation) if and only if H+ keeps a non-zero net coefficient in at least
\* two compartments and some configured membrane has its inner and its outer
\* compartment among them; the membrane it takes is the first such one.
C22_TransmembraneCandidate ==
    [][ pc2 = "proton" =>
            /\ pc2' \in {"pump", "multi"} <=> TransmembraneCandidate(rxn.metabolites)
            /\ TransmembraneCandidate(rxn.metabolites) =>
                  /\ route'.membrane_key = membranes[FirstMatch(rxn.metabolites)][1]
                  /\ route'.inner_comp = MembraneOf(rxn.metabolites).inner
                  /\ route'.outer_comp = MembraneOf(rxn.metabolites).outer ]_vars

\* A candidate found with two configured membranes that both match
C22_Witness ==
    /\ pc2 \in {"pump", "multi"}
    /\ Cardinality(MatchingMembranes(rxn.metabolites)) = 2
    /\ route.membrane_key = membranes[1][1]

\* Sum of the coefficients a reaction gives to identifier q in one compartment
RECURSIVE NetIn(_, _, _, _)
NetIn(mets, q, comp, i) ==
    IF i > Len(mets) THEN 0
    ELSE (IF /\ InCache(compound_lookup, mets[i][1].id)
             /\ QueriedAs(compound_lookup, mets[i][1].id) = q
             /\ mets[i][1].compartment = comp
          THEN mets[i][2] ELSE 0) + NetIn(mets, q, comp, i + 1)

\* The half-reaction of one compartment: each identifier the compartment's
\* resolved metabolites resolve to, in order of first appearance, with the
\* sum of their coefficients; an identifier whose sum is zero is absent
HalfReaction(mets, comp) ==
    LET first == SelectSeq([j \in 1..Len(mets) |-> j],
                    LAMBDA j : /\ j \in ResolvedIn(mets, comp)
                               /\ \A x \in ResolvedIn(mets, comp) :
                                     QueriedAs(compound_lookup, mets[x][1].id) =
                                         QueriedAs(compound_lookup, mets[j][1].id) => x >= j)
        sums == [x \in 1..Len(first) |->
                    LET q == QueriedAs(compound_lookup, mets[first[x]][1].id)
                    IN  <<q, NetIn(mets, q, comp, 1)>>]
    IN  SelectSeq(sums, LAMBDA kv : kv[2] # 0)

OnlyPositive(half) == half # << >> /\ \A x \in 1..Len(half) : half[x][2] > 0

\* C23: for a transmembrane candidate the inner and the outer half-reaction
\* are made of the resolved metabolites of the inner and of the outer
\* compartment, coefficients summed per identifier, every other metabolite
\* dropped; the reaction goes to proton_pump exactly when one of the two
\* half-reactions has only positive coefficients, else to multicompartmental.
C23_HalfReactionsAndRoute ==
    [][ (pc2 = "proton" /\ TransmembraneCandidate(rxn.metabolites)) =>
            LET inner == HalfReaction(rxn.metabolites, MembraneOf(rxn.metabolites).inner)
                outer == HalfReaction(rxn.metabolites, MembraneOf(rxn.metabolites).outer)
            IN  /\ route'.inner_formula = stoich_to_formula(inner)
                /\ route'.outer_formula = stoich_to_formula(outer)
                /\ pc2' = "pump" <=> (OnlyPositive(inner) \/ OnlyPositive(outer))
                /\ pc2' = "multi" <=> ~(OnlyPositive(inner) \/ OnlyPositive(outer)) ]_vars

\* A candidate sent to multicompartmental that has a resolved metabolite
\* outside both compartments of its membrane
C23_Witness ==
    /\ pc2 = "multi"
    /\ \E j \in 1..Len(rxn.metabolites) :
          /\ Resolved(compound_lookup, rxn.metabolites[j][1].id)
          /\ rxn.metabolites[j][1].compartment \notin {route.inner_comp, route.outer_comp}

\* The configured couples both of whose forms are among the resolved
\* compounds of a reaction, and the identifiers of their two forms
CouplesCompleteIn(mets) ==
    {x \in 1..Len(config.redox_couples) :
        /\ config.redox_couples[x].oxidized_kegg \in ResolvedCompounds(mets)
        /\ config.redox_couples[x].reduced_kegg \in ResolvedCompounds(mets)}

\* The phase the claim gives identifier q in the redox_carrier calculation
ExpectedPhase(mets, q) ==
    IF \E x \in CouplesCompleteIn(mets) : config.redox_couples[x].reduced_kegg = q
    THEN <<"RedoxCarrier",
           config.redox_couples[CHOOSE x \in CouplesCompleteIn(mets) :
                                    config.redox_couples[x].reduced_kegg = q].potential_mV>>
    ELSE IF \E x \in CouplesCompleteIn(mets) : config.redox_couples[x].oxidized_kegg = q
    THEN <<"RedoxCarrier", 0>>
    ELSE <<"PhasedCompound">>

\* The phased reaction submitted for a reaction: the query that follows the
\* get_compound calls of the redox_carrier calculation when none of them raised
PhasedQueries(i) ==
    {x \in 1..Len(extCalls[i]) :
        /\ extCalls[i][x].op = "standard_dg_prime"
        /\ "redox_carrier" \in Range(attempted[i])
        /\ x = Len(ResolvedIds(MetsOf(i), compound_lookup)) + 1
        /\ \A z \in 1..(x - 1) : extCalls[i][z].op = "get_compound" /\ extCalls[i][z].ok}

\* C24: in the redox_carrier calculation a metabolite is wrapped as a
\* potential-bearing carrier (reduced form at the couple's potential, oxidized
\* form at 0 mV) only if it resolves to a member of a couple that is complete
\* in the reaction; every other metabolite, the member of an incomplete couple
\* included, is an ordinary compound; couples_used names exactly the complete
\* couples.
C24_OnlyCompleteCouplesAreCarriers ==
    \A i \in StoredRxns :
        /\ \A x \in PhasedQueries(i) :
              \A y \in 1..Len(extCalls[i][x].arg) :
                  extCalls[i][x].arg[y][1][2] = ExpectedPhase(MetsOf(i), extCalls[i][x].arg[y][1][1])
        /\ MethodOf(i) = <<"redox_carrier">> =>
              Range(OGet(ThermoOf(i), "couples_used", None)) =
                  {config.redox_couples[x].name : x \in CouplesCompleteIn(MetsOf(i))}

\* The redox_carrier calculation of a reaction went through: its phased query
\* was answered
RedoxSucceeded(i) == \E x \in PhasedQueries(i) : extCalls[i][x].ok

\* C25: for a reaction whose net stoichiometry is not empty and that has a
\* complete couple, the redox_carrier calculation is the first one entered;
\* when it succeeds the entry's method is redox_carrier and neither the
\* multicompartmental nor the proton_pump calculation is entered, also when
\* the reaction moves H+ across a configured membrane.
C25_RedoxBeforeProtonCheck ==
    \A i \in StoredRxns :
        (~AllCancel(MetsOf(i)) /\ HasCompleteCouple(MetsOf(i))) =>
            /\ attempted[i] # << >> /\ attempted[i][1] = "redox_carrier"
            /\ RedoxSucceeded(i) =>
                  /\ MethodOf(i) = <<"redox_carrier">>
                  /\ attempted[i] = <<"redox_carrier">>
                  /\ \A x \in 1..Len(extCalls[i]) : x <= Len(ResolvedIds(MetsOf(i), compound_lookup)) + 1

\* A written redox_carrier entry of a reaction that is also a transmembrane
\* proton candidate under the loaded compartment parameters
C25_Witness ==
    /\ pc2 = "done"
    /\ \E i \in StoredRxns :
          /\ MethodOf(i) = <<"redox_carrier">>
          /\ config.compartment_params.loaded
          /\ TransmembraneCandidate(MetsOf(i))

\* The number stored under a field of the thermodynamics of an entry
NumberOf(i, field) == OGet(ThermoOf(i), field, None)[2]

\* The answered standard-dG queries of a reaction
AnsweredQueries(i) ==
    {x \in 1..Len(extCalls[i]) : extCalls[i][x].op = "standard_dg_prime" /\ extCalls[i][x].ok}

\* C26: in every proton_pump entry dG_prime = dG_chemistry + dG_membrane,
\* dG_membrane = vectorial_protons * dG_per_proton with the per-proton energy
\* of the membrane, dG_chemistry is the answer to the standard query for the
\* formula of the full net stoichiometry, and the uncertainty is that
\* answer's uncertainty.
C26_ProtonPumpTotal ==
    \A i \in StoredRxns :
        MethodOf(i) = <<"proton_pump">> =>
            /\ NumberOf(i, "dG_prime") = NumberOf(i, "dG_chemistry") + NumberOf(i, "dG_membrane")
            /\ NumberOf(i, "dG_membrane") =
                  NumberOf(i, "vectorial_protons") * NumberOf(i, "dG_per_proton")
            /\ NumberOf(i, "dG_per_proton") = PerProtonEnergy(MetsOf(i))
            /\ OGet(ThermoOf(i), "formula_queried", None) = NetFormula(i)
            /\ \E x \in AnsweredQueries(i) :
                  /\ x = Len(extCalls[i])
                  /\ extCalls[i][x].arg = NetFormula(i)
            /\ NumberOf(i, "dG_chemistry") = ServiceDG.value
            /\ NumberOf(i, "uncertainty") = ServiceDG.error

\* A written proton_pump entry with a membrane term that is not zero
C26_Witness ==
    /\ pc2 = "done"
    /\ \E i \in StoredRxns :
          /\ MethodOf(i) = <<"proton_pump">>
          /\ NumberOf(i, "dG_membrane") # 0
          /\ NumberOf(i, "vectorial_protons") >= 2

\* The rows of the priority order for which a metabolite has a value
AvailableRows(met) == {r \in 1..Len(ID_PRIORITY) : Truthy(met.annotation[ID_PRIORITY[r][1]])}

\* The number of a chebi annotation, with or without its CHEBI: prefix
ChebiNumber(v) == IF StartsWith(v, <<"CHEBI", ":">>) THEN SubSeq(v, 3, Len(v)) ELSE v

\* The grouping key of the rule: the first available identifier in the order
\* kegg.compound, chebi, metanetx.chemical, bigg.metabolite, else name:<name>
KeyOfRule(met) ==
    IF AvailableRows(met) = {} THEN <<"name", ":">> \o met.name
    ELSE LET r == CHOOSE x \in AvailableRows(met) : \A y \in AvailableRows(met) : x <= y
         IN  IF ID_PRIORITY[r][1] = "chebi"
             THEN <<"chebi", ":", "CHEBI", ":">> \o ChebiNumber(met.annotation["chebi"])
             ELSE <<ID_PRIORITY[r][2], ":">> \o met.annotation[ID_PRIORITY[r][1]]

SameGroup(a, b) ==
    \E g \in 1..Len(compound_groups) :
        /\ metabolites[a] \in Range(MembersOf(g))
        /\ metabolites[b] \in Range(MembersOf(g))

\* C27: after grouping, two metabolites are in the same compound group if and
\* only if their grouping keys are equal, the key being the first available
\* identifier in the order kegg.compound, chebi, metanetx.chemical,
\* bigg.metabolite, or name:<name> for a metabolite without identifier; two
\* metabolites without identifier are merged exactly when their names are equal.
C27_GroupingKeyRule ==
    pc # "group" =>
        /\ \A a, b \in 1..Len(metabolites) :
              SameGroup(a, b) <=> KeyOfRule(metabolites[a]) = KeyOfRule(metabolites[b])
        /\ \A g \in 1..Len(compound_groups) : \A j \in 1..Len(MembersOf(g)) :
              compound_groups[g].key = KeyOfRule(MembersOf(g)[j])
        /\ \A a, b \in 1..Len(metabolites) :
              (AvailableRows(metabolites[a]) = {} /\ AvailableRows(metabolites[b]) = {})
                  => (SameGroup(a, b) <=> metabolites[a].name = metabolites[b].name)

\* Two metabolites without identifier and with one name, merged into one group
C27_Witness ==
    /\ pc # "group"
    /\ \E a, b \in 1..Len(metabolites) :
          /\ a # b
          /\ AvailableRows(metabolites[a]) = {} /\ AvailableRows(metabolites[b]) = {}
          /\ metabolites[a].name = metabolites[b].name
          /\ SameGroup(a, b)

\* The error type of each calculation method
ErrorKind(m) ==
    CASE m = "redox_carrier" -> "redox_carrier_error"
      [] m = "proton_pump" -> "proton_pump_error"
      [] m = "multicompartmental" -> "multicompartmental_error"
      [] m \in {"standard", "standard (fallback)"} -> "equilibrator_error"

MethodErrorKinds ==
    {"redox_carrier_error", "proton_pump_error", "multicompartmental_error", "equilibrator_error"}

\* The records of an entry's errors list left by calculation methods, and the others
MethodErrors(i) == SelectSeq(ErrorsOf(i), LAMBDA e : e.type \in MethodErrorKinds)

ResolutionErrors(i) == SelectSeq(ErrorsOf(i), LAMBDA e : e.type \notin MethodErrorKinds)

\* The types of the method errors, in list order
MethodErrorTypes(i) == [n \in 1..Len(MethodErrors(i)) |-> MethodErrors(i)[n].type]

\* The methods entered for a reaction that failed, in order: every method
\* but the last gave way to a later one, and the last failed when as many
\* calls raised as methods were entered
FailedAttempts(i) ==
    IF AllAttemptsFailed(i) THEN MethodsAttempted(i)
    ELSE SubSeq(MethodsAttempted(i), 1, Len(MethodsAttempted(i)) - 1)

\* C28: the final errors list of every entry holds, after the
\* metabolite_not_in_cache / not_found_in_equilibrator records, exactly one
\* record of its own kind for each calculation method that was attempted and
\* failed, in the order of the attempts; a fallback that succeeds afterwards
\* removes none.
C28_ErrorTrail ==
    \A i \in StoredRxns :
        /\ Len(FailedCalls(i)) = Len(FailedAttempts(i))
        /\ \A x \in 1..Len(ResolutionErrors(i)) :
              ResolutionErrors(i)[x].type \in {"metabolite_not_in_cache", "not_found_in_equilibrator"}
        /\ \A x, y \in 1..Len(ErrorsOf(i)) :
              (ErrorsOf(i)[x].type \in MethodErrorKinds /\ ErrorsOf(i)[y].type \notin MethodErrorKinds)
                  => y < x
        /\ MethodErrorTypes(i) = [n \in 1..Len(FailedAttempts(i)) |-> ErrorKind(FailedAttempts(i)[n])]

\* A written entry with a result, reached after two methods failed
C28_Witness ==
    /\ pc2 = "done"
    /\ \E i \in StoredRxns :
          /\ DGPrimeOf(i) # None
          /\ Len(MethodErrors(i)) = 2

\* Some metabolite of the reaction is absent from the compound cache or is
\* cached without a resolved identifier
HasUnresolved(mets) ==
    \E j \in 1..Len(mets) : ~Resolved(compound_lookup, mets[j][1].id)

\* C29: a reaction with a metabolite that is unresolved or absent from the
\* compound cache never has the fixed transport result (dG_prime 0.0,
\* uncertainty 0.0, formula_queried "transport (no net reaction)").
C29_NoTransportResultWhenUnresolved ==
    \A i \in StoredRxns :
        HasUnresolved(MetsOf(i)) => ThermoOf(i) # TransportThermo(InitialThermo)

\* The reactions the currently enabled constraints act on
EnabledTargets ==
    {r \in ServedReactions :
        \E i \in 1..Len(constraints) :
            constraints[i][2].enabled /\ ConstrainedReaction(constraints[i][2]) = <<r>>}

\* C30: when an optimize request has solved the model, every reaction no
\* currently enabled constraint acts on has its load-time bounds, whatever
\* constraints were added, removed, toggled, cleared or preset before; the
\* solution was computed under these bounds.
C30_BoundsRestoredAtSolve ==
    (request = "optimize" /\ model_loaded) =>
        /\ \A r \in ServedReactions :
              r \notin EnabledTargets =>
                  /\ model_bounds[r] = FileBounds[r]
                  /\ fba_solution[r] = FileBounds[r]
        /\ original_bounds = FileBounds

\* An optimize that solved with a reaction back at its load-time bounds
\* which an earlier solve had constrained, while another reaction is
\* still constrained
C30_Witness ==
    /\ request = "optimize" /\ model_loaded
    /\ \E r \in constrained :
          /\ r \notin EnabledTargets
          /\ model_bounds[r] = FileBounds[r]
    /\ \E r \in EnabledTargets : model_bounds[r] # FileBounds[r]

====
